---- MODULE Spec2Model ----
(***************************************************************************)
(* Model of the document-rendering pipeline of sivee.pro: the LaTeX        *)
(* escaping filter (core/LatexRenderer.py), the section normalizers        *)
(* (app.py, api/resumes.py) and the PDF generation handlers with their     *)
(* temporary working directories.                                          *)
(***************************************************************************)
EXTENDS Integers, Sequences, FiniteSets, TLC

VARIABLES
    text,       \* escape_latex: the argument (a tagged Python value)
    escaped,    \* escape_latex: the returned value
    epc,        \* escape_latex: "call" before the call, "ret" after it
    section,    \* normalizer: the section passed in
    lang,       \* normalizer: the language code passed in
    section_dict, \* normalizer: the returned dictionary (or the raised exception)
    npc,        \* normalizer: "call", then "app" / "api" naming the function that returned
    req,        \* per worker: the request it is handling and where it stands in the handler
    dirs,       \* the working directories that exist on disk
    files,      \* per working directory: the names of the files in it
    made_from,  \* per working directory of a request: whose data main.tex and main.pdf hold
    created,    \* number of tempfile.mkdtemp calls made so far
    user,       \* the users row of the authenticated user
    now,        \* the current calendar month
    generated,  \* per month: the requests of the user checked in it and answered 200
    kwargs,     \* PersonalInfo: the values passed to the constructor
    personal,   \* PersonalInfo: the object constructed (or the error raised)
    dump,       \* PersonalInfo: the dict returned by the last model_dump()
    ipc,        \* PersonalInfo: "call", then "built" / "raised", then "read"
    accounts,   \* resumes API: per user, the tier and bonus_resumes of the users row
    resumes,    \* resumes API: per id, the row of the resumes table (or none)
    next_id,    \* resumes API: the id the next inserted row gets
    older,      \* resumes API: per user, the rows no request of the behaviour names
    resp,       \* resumes API: the last request and its response
    code_store, \* OAuth: _oauth_code_store, per code the (token, expiry) stored (or none)
    clock,      \* OAuth: time.time(), in seconds
    codes_made, \* OAuth: number of codes secrets.token_urlsafe has produced
    returned,   \* OAuth: per code, the number of exchanges that returned its token
    exchange,   \* OAuth: the last _exchange_oauth_code call and what it returned
    password_hash, \* password reset: users.password_hash of the account
    reset_token,   \* password reset: the payload of the token mailed to the user (or none)
    reset_expired, \* password reset: TRUE once the token's 30 minutes are over
    resets,        \* password reset: number of requests with the token that changed the password
    reset_resp     \* password reset: the last reset request and its response

escape_vars == <<text, escaped, epc>>
norm_vars == <<section, lang, section_dict, npc>>
pipe_vars == <<req, dirs, files, made_from, created, user, now, generated>>
info_vars == <<kwargs, personal, dump, ipc>>
store_vars == <<accounts, resumes, next_id, older, resp>>
oauth_vars == <<code_store, clock, codes_made, returned, exchange>>
reset_vars == <<password_hash, reset_token, reset_expired, resets, reset_resp>>
vars == <<escape_vars, norm_vars, pipe_vars, info_vars, store_vars, oauth_vars, reset_vars>>

(***************************************************************************)
(* Bounds                                                                  *)
(***************************************************************************)
MaxLen == 3     \* longest enumerated input string of escape_latex
MaxText == 2    \* longest enumerated text of a section's items
MaxItems == 2   \* longest enumerated list of a section's items
MaxDirs == 3    \* working directories created in one behaviour
MaxMonth == 2   \* calendar months a behaviour runs through
MaxIds == 3     \* rows inserted into the resumes table in one behaviour

(***************************************************************************)
(* Python strings are sequences of one-character strings.                  *)
(***************************************************************************)
BSL == "\\"

RECURSIVE SeqsUpTo(_, _)
SeqsUpTo(S, n) ==
    IF n = 0 THEN {<<>>}
    ELSE LET shorter == SeqsUpTo(S, n - 1)
         IN  shorter \cup {Append(s, c) : s \in {t \in shorter : Len(t) = n - 1}, c \in S}

\* str.replace(old, new) for a one-character old: left to right, every occurrence.
RECURSIVE replace(_, _, _)
replace(s, old, new) ==
    IF s = <<>> THEN <<>>
    ELSE (IF Head(s) = old THEN new ELSE <<Head(s)>>) \o replace(Tail(s), old, new)

\* the replacements dict of escape_latex, in insertion (= iteration) order
replacements ==
    << <<"&", <<BSL, "&">> >>,
       <<"%", <<BSL, "%">> >>,
       <<"$", <<BSL, "$">> >>,
       <<"#", <<BSL, "#">> >>,
       <<"_", <<BSL, "_">> >>,
       <<"~", <<BSL, "t","e","x","t","a","s","c","i","i","t","i","l","d","e", "{", "}">> >>,
       <<"^", <<BSL, "t","e","x","t","a","s","c","i","i","c","i","r","c","u","m", "{", "}">> >> >>

textbackslash == <<BSL, "t","e","x","t","b","a","c","k","s","l","a","s","h", "{", "}">>

RECURSIVE apply_replacements(_, _)
apply_replacements(s, k) ==
    IF k > Len(replacements) THEN s
    ELSE apply_replacements(replace(s, replacements[k][1], replacements[k][2]), k + 1)

\* escape_str without the backslash step
escape_str_no_backslash(s) ==
    LET t2 == replace(s, "{", <<BSL, "{">>)
        t3 == replace(t2, "}", <<BSL, "}">>)
    IN  apply_replacements(t3, 1)

\* escape_str with the backslash step moved after the other replacements
escape_str_backslash_last(s) ==
    LET t2 == replace(s, "{", <<BSL, "{">>)
        t3 == replace(t2, "}", <<BSL, "}">>)
    IN  replace(apply_replacements(t3, 1), BSL, textbackslash)

\* the body of escape_latex for a str argument
escape_str(s) ==
    LET t1 == replace(s, BSL, textbackslash)
        t2 == replace(t1, "{", <<BSL, "{">>)
        t3 == replace(t2, "}", <<BSL, "}">>)
    IN  apply_replacements(t3, 1)

\* A Python value: tag is its type, chars its text (for a non-str, its repr).
Str(s) == [tag |-> "str", chars |-> s]

\* escape_latex coercing its argument with str() instead of returning it
escape_latex_coerce(v) == Str(escape_str(v.chars))

escape_latex(v) ==
    IF v.tag # "str" THEN v ELSE Str(escape_str(v.chars))

(***************************************************************************)
(* Inputs of escape_latex                                                  *)
(***************************************************************************)
Specials == {BSL, "{", "}", "&", "%", "$", "#", "_", "~", "^"}
Plain == {"t", " ", "8"}
Alphabet == Specials \cup Plain

InjectionInputs ==
    { <<BSL, "i","n","p","u","t", "{", "/", "e","t","c", "}">>,
      <<BSL, "w","r","i","t","e","1","8", "{", "r","m", "}">>,
      <<BSL, "t","e","x","t","b","f", "{", "B", "}">>,
      <<"R", "é", "s", "u", "m", "é">> }

NonStrings ==
    { [tag |-> "int", chars |-> <<"4", "2">>],
      [tag |-> "NoneType", chars |-> <<"N","o","n","e">>],
      [tag |-> "list", chars |-> <<"[", "1", ",", "2", "]">>],
      [tag |-> "list", chars |-> <<"[", BSL, "]">>] }

EscapeInputs ==
    {Str(s) : s \in SeqsUpTo(Alphabet, MaxLen) \cup InjectionInputs} \cup NonStrings

NoValue == [tag |-> "unset", chars |-> <<>>]

(***************************************************************************)
(* Python values held by a section's items.  Every value has the same      *)
(* record shape: tag is the Python type, chars the text of a str (or the   *)
(* digits of an int), languages / tools the two entries of a skills dict   *)
(* or SkillsItem, elems the elements of a list.                            *)
(***************************************************************************)
FAbsent == [tag |-> "absent", chars |-> <<>>]       \* key not in the dict
FNone == [tag |-> "NoneType", chars |-> <<>>]
FStr(s) == [tag |-> "str", chars |-> s]
FInt(d) == [tag |-> "int", chars |-> d]

Value(t, c, l, o, e) == [tag |-> t, chars |-> c, languages |-> l, tools |-> o, elems |-> e]
VAbsent == Value("absent", <<>>, FAbsent, FAbsent, <<>>)    \* "items" not in the dict
VNone == Value("NoneType", <<>>, FAbsent, FAbsent, <<>>)
VStr(s) == Value("str", s, FAbsent, FAbsent, <<>>)
VInt(d) == Value("int", d, FAbsent, FAbsent, <<>>)
VDict(l, o) == Value("dict", <<>>, l, o, <<>>)
VModel(l, o) == Value("SkillsItem", <<>>, l, o, <<>>)
VList(e) == Value("list", <<>>, FAbsent, FAbsent, e)

\* an element of a list: a dict or a pydantic item with two text fields
Elem(k, c, s) == [kind |-> k, category |-> c, skills |-> s]

\* dict.get(key): None when the key is absent
get(f) == IF f.tag = "absent" THEN FNone ELSE f

\* bool(x) of a dict entry
FieldTruthy(f) ==
    CASE f.tag = "str" -> f.chars # <<>>
      [] f.tag = "int" -> f.chars # <<"0">>
      [] OTHER -> FALSE

\* bool(x) of an items value
Truthy(v) ==
    CASE v.tag = "str" -> v.chars # <<>>
      [] v.tag = "int" -> v.chars # <<"0">>
      [] v.tag = "dict" -> v.languages.tag # "absent" \/ v.tools.tag # "absent"
      [] v.tag = "list" -> v.elems # <<>>
      [] v.tag = "SkillsItem" -> TRUE
      [] OTHER -> FALSE

\* (x or "")
or_empty(f) == IF FieldTruthy(get(f)) THEN get(f) ELSE FStr(<<>>)

\* str.strip(): leading and trailing whitespace removed
RECURSIVE lstrip(_)
lstrip(s) == IF s # <<>> /\ Head(s) = " " THEN lstrip(Tail(s)) ELSE s

RECURSIVE rstrip(_)
rstrip(s) == IF s # <<>> /\ s[Len(s)] = " " THEN rstrip(SubSeq(s, 1, Len(s) - 1)) ELSE s

strip(s) == rstrip(lstrip(s))

\* repr() of the entries of a dict or SkillsItem, of the elements of a list
FieldRepr(f) ==
    CASE f.tag = "str" -> <<"'">> \o f.chars \o <<"'">>
      [] f.tag = "int" -> f.chars
      [] f.tag = "NoneType" -> <<"N","o","n","e">>
      [] OTHER -> <<>>

RECURSIVE ElemsRepr(_)
ElemsRepr(e) ==
    IF e = <<>> THEN <<>>
    ELSE <<"{", "'">> \o Head(e).category \o <<"'", ":", "'">> \o Head(e).skills \o <<"'", "}">>
         \o ElemsRepr(Tail(e))

\* str(x)
str(v) ==
    CASE v.tag = "str" -> v.chars
      [] v.tag = "int" -> v.chars
      [] v.tag = "list" -> <<"[">> \o ElemsRepr(v.elems) \o <<"]">>
      [] v.tag \in {"dict", "SkillsItem"} ->
            <<"{">> \o FieldRepr(v.languages) \o <<",">> \o FieldRepr(v.tools) \o <<"}">>
      [] OTHER -> <<"N","o","n","e">>

(***************************************************************************)
(* translations.py                                                         *)
(***************************************************************************)
SectionTypes ==
    {"summary", "education", "experiences", "projects", "skills", "leadership",
     "languages", "custom"}

PDF_TRANSLATIONS(l, t) ==
    IF l = "en"
    THEN CASE t = "summary" -> "Summary"
           [] t = "education" -> "Education"
           [] t = "experiences" -> "Professional Experience"
           [] t = "projects" -> "Projects"
           [] t = "skills" -> "Technical Skills"
           [] t = "leadership" -> "Leadership & Community"
           [] t = "languages" -> "Languages"
           [] t = "custom" -> "Other"
    ELSE CASE t = "summary" -> "Résumé"
           [] t = "education" -> "Formation"
           [] t = "experiences" -> "Expérience Professionnelle"
           [] t = "projects" -> "Projets"
           [] t = "skills" -> "Compétences Techniques"
           [] t = "leadership" -> "Leadership & Engagement"
           [] t = "languages" -> "Langues"
           [] t = "custom" -> "Autre"

DEFAULT_TITLES(t) ==
    CASE t = "summary" -> {"Summary", "Résumé"}
      [] t = "education" -> {"Education", "Formation"}
      [] t = "experiences" ->
            {"Experiences", "Experience", "Expérience", "Expérience Professionnelle",
             "Professional Experience"}
      [] t = "projects" -> {"Projects", "Projets"}
      [] t = "skills" ->
            {"Technical Skills", "Skills", "Compétences", "Compétences Techniques"}
      [] t = "leadership" ->
            {"Leadership", "Leadership & Community Involvement", "Leadership & Community",
             "Leadership & Engagement"}
      [] t = "languages" -> {"Languages", "Langues"}
      [] t = "custom" -> {"Custom Section", "Custom", "Autre"}
      [] OTHER -> {}

\* PDF_TRANSLATIONS.get(lang, PDF_TRANSLATIONS["fr"])
translations_for(l) == IF l \in {"fr", "en"} THEN l ELSE "fr"

get_section_title_keep(section_type, l, custom_title) ==
    IF custom_title # "" THEN custom_title
    ELSE PDF_TRANSLATIONS(translations_for(l), section_type)

get_section_title_no_custom(section_type, l, custom_title) ==
    IF custom_title = "" \/ custom_title \in DEFAULT_TITLES(section_type)
    THEN PDF_TRANSLATIONS(translations_for(l), section_type)
    ELSE custom_title

get_section_title(section_type, l, custom_title) ==
    IF section_type = "custom"
    THEN IF custom_title # "" THEN custom_title
         ELSE PDF_TRANSLATIONS(translations_for(l), "custom")
    ELSE LET is_default_title ==
                 custom_title = "" \/ custom_title \in DEFAULT_TITLES(section_type)
         IN  IF is_default_title
             THEN PDF_TRANSLATIONS(translations_for(l), section_type)
             ELSE custom_title

(***************************************************************************)
(* The section normalizers.  A result is the returned dictionary: keys are *)
(* the keys it holds, raised tells that the call raised instead.           *)
(***************************************************************************)
Result(sec, t, ttl, vis, c, keys, hc) ==
    [raised |-> FALSE, keys |-> keys, id |-> sec.id, type |-> t, title |-> ttl,
     isVisible |-> vis, content |-> c, has_content |-> hc]

Raised ==
    [raised |-> TRUE, keys |-> {}, id |-> "", type |-> "", title |-> "",
     isVisible |-> FALSE, content |-> VNone, has_content |-> FALSE]

NoResult ==
    [raised |-> FALSE, keys |-> {}, id |-> "", type |-> "", title |-> "",
     isVisible |-> FALSE, content |-> VAbsent, has_content |-> FALSE]

AppKeys == {"id", "type", "title", "isVisible", "content", "has_content"}
ApiKeys == {"id", "type", "title", "isVisible", "content"}

\* item.model_dump() if hasattr(item, "model_dump") else item
RECURSIVE dump_items(_)
dump_items(e) ==
    IF e = <<>> THEN <<>>
    ELSE <<Elem("dict", Head(e).category, Head(e).skills)>> \o dump_items(Tail(e))

\* bool((c.get("languages") or "").strip() or (c.get("tools") or "").strip());
\* "error" when .strip() is applied to a value that is not a str
skills_has_content(c) ==
    LET a == or_empty(c.languages)
        b == or_empty(c.tools)
    IN  IF a.tag # "str" THEN "error"
        ELSE IF strip(a.chars) # <<>> THEN "true"
        ELSE IF b.tag # "str" THEN "error"
        ELSE IF strip(b.chars) # <<>> THEN "true" ELSE "false"

\* app.py
convert_section_items(sec, l) ==
    LET translated_title == get_section_title(sec.type, l, sec.title)
        R(c, hc) == Result(sec, sec.type, translated_title, sec.isVisible, c, AppKeys, hc)
    IN  IF sec.type = "skills"
        THEN IF sec.items.tag = "dict"
             THEN IF skills_has_content(sec.items) = "error" THEN Raised
                  ELSE R(sec.items, skills_has_content(sec.items) = "true")
             ELSE IF sec.items.tag = "SkillsItem"
             THEN LET content == VDict(sec.items.languages, sec.items.tools)
                  IN  IF skills_has_content(content) = "error" THEN Raised
                      ELSE R(content, skills_has_content(content) = "true")
             ELSE R(VDict(FStr(<<>>), FStr(<<>>)), FALSE)
        ELSE IF sec.type \in {"languages", "summary"}
        THEN LET content_str == IF Truthy(sec.items) THEN str(sec.items) ELSE <<>>
             IN  R(VStr(content_str), strip(content_str) # <<>>)
        ELSE IF sec.items.tag = "list"
             THEN R(VList(dump_items(sec.items.elems)), Len(sec.items.elems) > 0)
             ELSE R(VList(<<>>), FALSE)

ProgrammingLanguages ==
    <<"P","r","o","g","r","a","m","m","i","n","g"," ","L","a","n","g","u","a","g","e","s">>
Tools == <<"T","o","o","l","s">>

\* api/resumes.py
api_convert_section_items(sec, l) ==
    LET section_type == IF sec.type = "absent" THEN "custom" ELSE sec.type
        translated_title == get_section_title(section_type, l, sec.title)
        items == IF sec.items.tag = "absent" THEN VList(<<>>) ELSE sec.items
        R(c) == Result(sec, section_type, translated_title, sec.isVisible, c, ApiKeys, FALSE)
    IN  IF section_type = "skills"
        THEN IF items.tag = "dict"
             THEN LET a == or_empty(items.languages)
                      b == or_empty(items.tools)
                  IN  IF a.tag # "str" \/ b.tag # "str" THEN Raised
                      ELSE R(VList(
                              (IF strip(a.chars) # <<>>
                               THEN <<Elem("dict", ProgrammingLanguages, items.languages.chars)>>
                               ELSE <<>>)
                              \o
                              (IF strip(b.chars) # <<>>
                               THEN <<Elem("dict", Tools, items.tools.chars)>>
                               ELSE <<>>)))
             ELSE IF items.tag = "list" THEN R(items)
             ELSE R(VList(<<>>))
        ELSE IF section_type \in {"languages", "summary"}
        THEN R(VStr(IF Truthy(items) THEN str(items) ELSE <<>>))
        ELSE R(IF items.tag = "list" THEN items ELSE VList(<<>>))

(***************************************************************************)
(* Inputs of the normalizers                                               *)
(***************************************************************************)
Texts == SeqsUpTo({" ", "P"}, MaxText)
ShortTexts == {<<>>, <<" ">>, <<"P">>}
Fields == {FAbsent, FNone, FInt(<<"0">>), FInt(<<"5">>)} \cup {FStr(s) : s \in Texts}
Elems ==
    {Elem(k, c, s) : k \in {"dict", "model"},
                     c \in {<<>>, Tools},
                     s \in {<<>>, <<"P">>}}

ItemsValues ==
    {VAbsent, VNone, VInt(<<"0">>), VInt(<<"5">>)}
    \cup {VStr(s) : s \in Texts}
    \cup {VDict(l, o) : l \in Fields, o \in Fields}
    \cup {VModel(FStr(l), FStr(o)) : l \in ShortTexts, o \in ShortTexts}
    \cup {VList(e) : e \in SeqsUpTo(Elems, MaxItems)}

Titles == {"", "Skills", "Parcours"}

Sections ==
    [id : {"s1"}, type : SectionTypes \cup {"absent"}, title : Titles,
     isVisible : BOOLEAN, items : ItemsValues]

\* titles given to get_section_title: none, every default title, every
\* translation, and titles that are nobody's default
TitleInputs ==
    {"", " ", "Parcours", "skills", "Hobbies"}
    \cup UNION {DEFAULT_TITLES(t) : t \in SectionTypes}
    \cup {PDF_TRANSLATIONS(l, t) : l \in {"fr", "en"}, t \in SectionTypes}

TitleSections ==
    [id : {"s1"}, type : SectionTypes, title : TitleInputs, isVisible : {TRUE},
     items : {VList(<<>>)}]

\* what CVSection accepts: a type of the enumeration and an items value (any)
IsCVSection(sec) == sec.type \in SectionTypes /\ sec.items.tag # "absent"

\* what json_content holds: values decoded from JSON, no pydantic objects
IsJson(sec) ==
    /\ sec.items.tag # "SkillsItem"
    /\ \A i \in 1..Len(sec.items.elems) : sec.items.elems[i].kind = "dict"

NoSection ==
    [id |-> "", type |-> "absent", title |-> "", isVisible |-> FALSE, items |-> VAbsent]

(***************************************************************************)
(* Templates (app.py, api/resumes.py).  A template name is its base name   *)
(* followed by the size suffixes it carries.                               *)
(***************************************************************************)
Template(b, s) == [base |-> b, suf |-> s]
NoTemplate == Template("", <<>>)
DEFAULT_TEMPLATE == Template("harvard", <<>>)
TemplateBases == {"harvard", "europass", "mckinsey", "aurianne", "stephane", "michel", "double"}
VALID_TEMPLATES ==
    {Template(b, s) : b \in TemplateBases, s \in {<<>>, <<"_compact">>, <<"_large">>}}
SIZE_VARIANTS == <<"large", "normal", "compact">>

\* get_template_with_size: f"{base_template}_{size}", the base itself for "normal"
get_template_with_size(base_template, size) ==
    IF size = "normal" THEN base_template
    ELSE Template(base_template.base,
                  Append(base_template.suf, IF size = "large" THEN "_large" ELSE "_compact"))

\* get_base_template: template_id.replace("_compact", "").replace("_large", "")
get_base_template(template_id) == Template(template_id.base, <<>>)

\* template_id if template_id in VALID_TEMPLATES else DEFAULT_TEMPLATE
resolve_passthrough(template_id) == template_id

resolve_template(template_id) ==
    IF template_id \in VALID_TEMPLATES THEN template_id ELSE DEFAULT_TEMPLATE

TemplateInputs ==
    {Template("harvard", <<>>), Template("europass", <<"_large">>),
     Template("nonexistent_template", <<>>)}

(***************************************************************************)
(* PdfCompiler (core/PdfCompiler.py), from its tests and the specification *)
(***************************************************************************)
\* a file of a directory: the stem and the extension of its name
File(stem, ext) == <<stem, ext>>
NoFile == File("", "")

NoCmd == [argv |-> <<>>, outdir |-> 0, tex |-> NoFile, clean |-> FALSE]

compile_cmd_shell_escape(tex, d, clean) ==
    [argv |-> <<"latexmk", "-pdf", "-interaction=nonstopmode">>,
     outdir |-> d, tex |-> tex, clean |-> clean]

\* the command PdfCompiler.compile hands to subprocess.run
compile_cmd(tex, d, clean) ==
    [argv |-> <<"latexmk", "-pdf", "-no-shell-escape", "-interaction=nonstopmode">>,
     outdir |-> d, tex |-> tex, clean |-> clean]

AuxExtensions == {".aux", ".log", ".out", ".fls", ".fdb_latexmk", ".synctex.gz"}

\* files of the working directory after latexmk ran: exit 0 with or without a
\* PDF, or a non-zero exit; every run leaves auxiliary files
CompilerOutcomes == {"pdf", "nopdf", "failed"}
after_latexmk(tex, fs, outcome) ==
    fs \cup {File(tex[1], ".aux"), File(tex[1], ".log")}
       \cup (IF outcome = "pdf" THEN {File(tex[1], ".pdf")} ELSE {})

clean_every_aux_extension(tex, fs) == {f \in fs : f[2] \notin AuxExtensions}

\* _clean_auxiliary_files: tex_file.with_suffix(ext) is removed if it exists
clean_auxiliary_files(tex, fs) == fs \ {File(tex[1], ext) : ext \in AuxExtensions}

\* files after PdfCompiler.compile(clean) returned or raised
after_compile(tex, fs, outcome, clean) ==
    IF outcome # "failed" /\ clean
    THEN clean_auxiliary_files(tex, after_latexmk(tex, fs, outcome))
    ELSE after_latexmk(tex, fs, outcome)

\* what subprocess.run captured on standard error: nothing (None) or a text
Stderrs == {"None", "! LaTeX Error: File not found"}

Outcome(exc, msg, diag, started, cmd, fs) ==
    [exc |-> exc, msg |-> msg, diag |-> diag, started |-> started, cmd |-> cmd, files |-> fs]

compile_no_precheck(tex, d, fs, outcome, stderr, clean) ==
    IF outcome = "failed" \/ tex \notin fs
    THEN Outcome("RuntimeError", "LaTeX compilation failed",
                 IF stderr = "None" THEN "" ELSE stderr, TRUE, compile_cmd(tex, d, clean),
                 after_latexmk(tex, fs, "failed"))
    ELSE Outcome("", "", "", TRUE, compile_cmd(tex, d, clean),
                 after_compile(tex, fs, outcome, clean))

compile_raw_error(tex, d, fs, outcome, stderr, clean) ==
    IF tex \notin fs
    THEN Outcome("FileNotFoundError", "TeX file not found", "", FALSE, NoCmd, fs)
    ELSE IF outcome = "failed"
    THEN Outcome("CalledProcessError", "returned non-zero exit status", "", TRUE,
                 compile_cmd(tex, d, clean), after_compile(tex, fs, outcome, clean))
    ELSE Outcome("", "", "", TRUE, compile_cmd(tex, d, clean),
                 after_compile(tex, fs, outcome, clean))

\* PdfCompiler(tex).compile(clean) in directory d holding the files fs: the
\* exception raised ("" when none), its message, the diagnostic text it carries,
\* whether the subprocess was started, the command, and the files afterwards
compile(tex, d, fs, outcome, stderr, clean) ==
    IF tex \notin fs
    THEN Outcome("FileNotFoundError", "TeX file not found", "", FALSE, NoCmd, fs)
    ELSE IF outcome = "failed"
    THEN Outcome("RuntimeError", "LaTeX compilation failed",
                 IF stderr = "None" THEN "" ELSE stderr, TRUE, compile_cmd(tex, d, clean),
                 after_compile(tex, fs, outcome, clean))
    ELSE Outcome("", "", "", TRUE, compile_cmd(tex, d, clean),
                 after_compile(tex, fs, outcome, clean))

\* a direct call of PdfCompiler and what came of it
Call(op, tex, clean, outcome, stderr, before, result) ==
    [op |-> op, tex |-> tex, clean |-> clean, outcome |-> outcome, stderr |-> stderr,
     before |-> before, result |-> result]
NoCall == Call("", NoFile, FALSE, "", "", {}, Outcome("", "", "", FALSE, NoCmd, {}))

(***************************************************************************)
(* Requests.  A worker handles one request at a time; with the single     *)
(* worker below, the requests of a behaviour run one after another.        *)
(***************************************************************************)
Workers == {"w1"}

\* the requests that can be in flight at once: req has one entry per task, and
\* the tasks outside Workers stay idle unless the specification lets them run
Tasks == {"w1", "w2"}

\* what is known of the content of a directory's main.tex and main.pdf: the
\* request whose data each was made from ("" when the file is not there)
Content(tex, pdf) == [tex |-> tex, pdf |-> pdf]
NoContent == Content("", "")

\* a working directory at one fixed path, the same for every call
mkdtemp_fixed_path(n) == 1

\* tempfile.mkdtemp: a directory that did not exist, named by the number of
\* directories created before it
mkdtemp(n) == n + 1

Tiers == {"guest", "regular"}
MAX_DOWNLOADS_PER_GUEST == 1
MAX_DOWNLOADS_PER_USER == 3
MAX_DOWNLOADS_PER_PREMIUM == 1000

max_downloads(u) ==
    (IF u.is_guest THEN MAX_DOWNLOADS_PER_GUEST
     ELSE IF u.is_premium THEN MAX_DOWNLOADS_PER_PREMIUM
     ELSE MAX_DOWNLOADS_PER_USER) + u.bonus_downloads

\* the counter restarted at every check
get_monthly_download_count_always_reset(count, reset_at, month) == <<0, month>>

\* _get_monthly_download_count, on the session's copy of the user: the pair
\* <<download_count, download_count_reset_at>> after the call (0 is None)
get_monthly_download_count(count, reset_at, month) ==
    IF reset_at = 0 \/ reset_at # month THEN <<0, month>> ELSE <<count, reset_at>>

Idle ==
    [kind |-> "none", pc |-> "idle", auth |-> FALSE, tin |-> NoTemplate, tid |-> NoTemplate,
     dir |-> 0, exc |-> "", stage |-> "", rmtree |-> "", status |-> 0, detail |-> "", pdf_content |-> 0,
     body |-> 0, count |-> 0, reset |-> 0, ncompile |-> 0, cmd |-> NoCmd,
     i |-> 0, temp_dirs |-> {}, tested |-> <<>>, runs |-> <<>>,
     call |-> NoCall, data |-> "", compiled_from |-> ""]

(***************************************************************************)
(* PersonalInfo (app.py): the legacy github fields and their migration to  *)
(* links.  A str is its sequence of characters; None is FNone.             *)
(***************************************************************************)
MaxLinks == 2

HTTP == <<"h", "t", "t", "p", ":", "/", "/">>
HTTPS == <<"h", "t", "t", "p", "s", ":", "/", "/">>

\* str.startswith(prefix)
startswith(s, prefix) == Len(s) >= Len(prefix) /\ SubSeq(s, 1, Len(prefix)) = prefix

\* ProfessionalLink.validate_url raises ValueError
validate_url_raises(v) == v # <<>> /\ ~(startswith(v, HTTP) \/ startswith(v, HTTPS))

ProfessionalLink(platform, username, url) ==
    [platform |-> platform, username |-> username, url |-> url]

PersonalInfo(exc, links, github, github_url) ==
    [exc |-> exc, links |-> links, github |-> github, github_url |-> github_url]

NoPersonalInfo == PersonalInfo("", <<>>, FNone, FNone)

\* the migration applied whatever links holds
model_post_init_always(self) ==
    IF FieldTruthy(self.github) \/ FieldTruthy(self.github_url)
    THEN IF validate_url_raises(or_empty(self.github_url).chars)
         THEN PersonalInfo("ValidationError", <<>>, FNone, FNone)
         ELSE PersonalInfo("", <<ProfessionalLink("github", or_empty(self.github).chars,
                                                  or_empty(self.github_url).chars)>>, FNone, FNone)
    ELSE PersonalInfo("", self.links, FNone, FNone)

\* PersonalInfo.model_post_init: the object after construction, or the error
\* the constructor of the synthesized link raises
model_post_init(self) ==
    IF self.links = <<>> /\ (FieldTruthy(self.github) \/ FieldTruthy(self.github_url))
    THEN IF validate_url_raises(or_empty(self.github_url).chars)
         THEN PersonalInfo("ValidationError", <<>>, FNone, FNone)
         ELSE PersonalInfo("", <<ProfessionalLink("github", or_empty(self.github).chars,
                                                  or_empty(self.github_url).chars)>>, FNone, FNone)
    ELSE PersonalInfo("", self.links, FNone, FNone)

\* data.personal.model_dump()
model_dump(self) == [links |-> self.links, github |-> self.github, github_url |-> self.github_url]

NoDump == model_dump(NoPersonalInfo)

LinkInputs ==
    {ProfessionalLink("linkedin", <<"j", "d">>, HTTPS \o <<"l">>),
     ProfessionalLink("github", <<>>, <<>>)}

GithubInputs == {FNone, FStr(<<>>), FStr(<<"j", "d">>)}

GithubUrlInputs ==
    {FNone, FStr(<<>>), FStr(HTTPS \o <<"g">>), FStr(HTTP \o <<"g">>), FStr(<<"g", ".", "c">>)}

PersonalInfoInputs ==
    {PersonalInfo("", l, g, u) : l \in SeqsUpTo(LinkInputs, MaxLinks),
                                 g \in GithubInputs, u \in GithubUrlInputs}


(***************************************************************************)
(* The resumes API (api/resumes.py): the resumes table and the five routes *)
(***************************************************************************)
MAX_RESUMES_PER_GUEST == 1
MAX_RESUMES_PER_USER == 3
MAX_RESUMES_PER_PREMIUM == 100
FEEDBACK_BONUS_RESUMES == 3

UserIds == {"A", "B"}

Account(tier, bonus) == [is_guest |-> tier = "guest", is_premium |-> tier = "premium",
                         bonus_resumes |-> bonus]

\* the tier limit alone
max_resumes_ignore_bonus(u) ==
    IF u.is_guest THEN MAX_RESUMES_PER_GUEST
    ELSE IF u.is_premium THEN MAX_RESUMES_PER_PREMIUM
    ELSE MAX_RESUMES_PER_USER

\* create_resume: max_resumes
max_resumes(u) ==
    (IF u.is_guest THEN MAX_RESUMES_PER_GUEST
     ELSE IF u.is_premium THEN MAX_RESUMES_PER_PREMIUM
     ELSE MAX_RESUMES_PER_USER) + u.bonus_resumes

Resume(id, user_id, name, json_content) ==
    [id |-> id, user_id |-> user_id, name |-> name, json_content |-> json_content]

NoResume == Resume(0, "", "", "")

\* a query that filters on the id only
owned_by_anyone(row, user_id) == row # NoResume

\* the filter Resume.user_id == current_user.id
owned_by(row, user_id) == row # NoResume /\ row.user_id = user_id

\* db.query(Resume).filter(Resume.user_id == current_user.id).all(), for the
\* rows a request can name
rows_of(user_id) == {resumes[i] : i \in {j \in 1..MaxIds : owned_by(resumes[j], user_id)}}

\* ...count(): the rows above and the older ones
resume_count(user_id) == Cardinality(rows_of(user_id)) + older[user_id]

\* db.query(Resume).filter(Resume.id == resume_id, Resume.user_id == current_user.id).first()
find_resume(resume_id, user_id) ==
    IF owned_by(resumes[resume_id], user_id) THEN resumes[resume_id] ELSE NoResume

Response(op, by, id, status, body, total) ==
    [op |-> op, by |-> by, id |-> id, status |-> status, body |-> body, total |-> total]

NoResponse == Response("", "", 0, 0, {}, 0)

\* ResumeCreate / ResumeUpdate: the values a request carries ("None" is None)
Names == {"cv", "new"}
Contents == {"c1", "c2"}

StoreIdle ==
    /\ accounts = [u \in UserIds |-> Account("regular", 0)]
    /\ resumes = [i \in 1..MaxIds |-> NoResume]
    /\ next_id = 1
    /\ older = [u \in UserIds |-> 0]
    /\ resp = NoResponse


(***************************************************************************)
(* auth/routes.py: the temporary OAuth codes                               *)
(***************************************************************************)
MaxCodes == 2     \* codes issued in one behaviour
MaxClock == 130   \* seconds one behaviour lasts

OAUTH_CODE_EXPIRE_SECONDS == 60

\* the codes a client can present: those issued, and one never issued
Codes == 1..(MaxCodes + 1)
JwtTokens == {"jwtA", "jwtB"}

\* an entry of _oauth_code_store: (jwt_token, expiry)
Entry(jwt_token, expiry) == [present |-> TRUE, jwt_token |-> jwt_token, expiry |-> expiry]
NoEntry == [present |-> FALSE, jwt_token |-> "", expiry |-> 0]

\* the result of _exchange_oauth_code; "None" is None
Exchange(code, result) == [code |-> code, result |-> result]
NoExchange == Exchange(0, "")

\* `now > exp` in _cleanup_expired_codes, `time.time() > expiry` in _exchange_oauth_code
is_expired(t, exp) == t > exp

\* _cleanup_expired_codes: the store without the entries expired at time t
cleanup_expired_codes(store, t) ==
    [c \in Codes |-> IF store[c].present /\ is_expired(t, store[c].expiry) THEN NoEntry ELSE store[c]]

\* a pop that leaves the entry in the store
pop_keeps(store, code) == store

\* _oauth_code_store.pop(code): the store without the entry
pop(store, code) == [store EXCEPT ![code] = NoEntry]

\* the time that passes between two readings of time.time() in one call
Elapsed == {0, OAUTH_CODE_EXPIRE_SECONDS \div 2, OAUTH_CODE_EXPIRE_SECONDS + 1}

OAuthIdle ==
    /\ code_store = [c \in Codes |-> NoEntry]
    /\ clock = 0
    /\ codes_made = 0
    /\ returned = [c \in Codes |-> 0]
    /\ exchange = NoExchange


(***************************************************************************)
(* auth/routes.py: password reset                                          *)
(***************************************************************************)
MaxResets == 2    \* requests carrying the reset token that are followed in one behaviour

\* a bcrypt hash as passlib writes it: "$2b$12$", the 22 characters of the
\* salt (here its first three and the rest), then the digest of the password
\* under that salt
Hash(salt3, salt_rest, password) ==
    [ident |-> "$2b$12$", salt3 |-> salt3, salt_rest |-> salt_rest, password |-> password]
NoHash == Hash("", "", "")

\* the salts bcrypt can draw, as (first three characters, the other nineteen)
Salts == {"abc", "xyz"} \X {"r1", "r2"}
Passwords == {"NewPass456", "AnotherPass789"}

\* get_password_hash(password): the hashes pwd_context.hash can return, one per salt
get_password_hash(password) == {Hash(salt[1], salt[2], password) : salt \in Salts}

\* password_hash[:10]: the seven characters of the identifier and cost, and
\* the first three characters of the salt
hash_prefix(hash) == <<hash.ident, hash.salt3>>

\* the payload of a token made by create_access_token
Payload(type, hash) == [type |-> type, hash |-> hash]
NoPayload == Payload("", <<>>)

\* the response of reset_password
ResetResponse(token, status, detail) == [token |-> token, status |-> status, detail |-> detail]
NoResetResponse == ResetResponse("", 0, "")

ResetIdle ==
    /\ password_hash = NoHash
    /\ reset_token = NoPayload
    /\ reset_expired = FALSE
    /\ resets = 0
    /\ reset_resp = NoResetResponse


(***************************************************************************)
(* Actions                                                                 *)
(***************************************************************************)
PipeIdle ==
    /\ req = [w \in Tasks |-> Idle]
    /\ dirs = {}
    /\ files = [d \in 0..MaxDirs |-> {}]
    /\ made_from = [d \in 0..MaxDirs |-> NoContent]
    /\ created = 0
    /\ user = [is_guest |-> FALSE, is_premium |-> FALSE, bonus_downloads |-> 0,
               download_count |-> 0, download_count_reset_at |-> 0]
    /\ now = 1
    /\ generated = [m \in 1..MaxMonth |-> 0]

EscapeIdle == text = NoValue /\ escaped = NoValue /\ epc = "idle"
NormIdle == section = NoSection /\ lang = "fr" /\ section_dict = NoResult /\ npc = "idle"
InfoIdle == kwargs = NoPersonalInfo /\ personal = NoPersonalInfo /\ dump = NoDump /\ ipc = "idle"

CallEscapeLatex ==
    /\ epc = "call"
    /\ escaped' = escape_latex(text)
    /\ epc' = "ret"
    /\ UNCHANGED <<text, norm_vars, pipe_vars, info_vars, store_vars, oauth_vars, reset_vars>>

CallConvertSectionItems ==
    /\ npc = "call"
    /\ IsCVSection(section)
    /\ section_dict' = convert_section_items(section, lang)
    /\ npc' = "app"
    /\ UNCHANGED <<section, lang, escape_vars, pipe_vars, info_vars, store_vars, oauth_vars, reset_vars>>

CallApiConvertSectionItems ==
    /\ npc = "call"
    /\ IsJson(section)
    /\ section_dict' = api_convert_section_items(section, lang)
    /\ npc' = "api"
    /\ UNCHANGED <<section, lang, escape_vars, pipe_vars, info_vars, store_vars, oauth_vars, reset_vars>>

CallGetSectionTitle ==
    /\ npc = "call"
    /\ section_dict' = [NoResult EXCEPT !.keys = {"title"}, !.type = section.type,
                                        !.title = get_section_title(section.type, lang, section.title)]
    /\ npc' = "title"
    /\ UNCHANGED <<section, lang, escape_vars, pipe_vars, info_vars, store_vars, oauth_vars, reset_vars>>

(***************************************************************************)
(* Specification of the escaper: one call of escape_latex per behaviour.   *)
(***************************************************************************)
InitEscape ==
    /\ text \in EscapeInputs
    /\ escaped = NoValue
    /\ epc = "call"
    /\ NormIdle
    /\ PipeIdle
    /\ InfoIdle
    /\ StoreIdle
    /\ OAuthIdle
    /\ ResetIdle

NextEscape == CallEscapeLatex

SpecEscape == InitEscape /\ [][NextEscape]_vars

(***************************************************************************)
(* Specification of the normalizers: one call of either per behaviour.     *)
(***************************************************************************)
InitNormalize ==
    /\ section \in Sections
    /\ lang \in {"fr", "en"}
    /\ section_dict = NoResult
    /\ npc = "call"
    /\ EscapeIdle
    /\ PipeIdle
    /\ InfoIdle
    /\ StoreIdle
    /\ OAuthIdle
    /\ ResetIdle

NextNormalize == CallConvertSectionItems \/ CallApiConvertSectionItems

SpecNormalize == InitNormalize /\ [][NextNormalize]_vars

(***************************************************************************)
(* The routes of the resumes API                                           *)
(***************************************************************************)
\* POST /api/resumes
CreateResume(u) ==
    /\ \E json_content \in {"c1"} :
          IF resume_count(u) >= max_resumes(accounts[u])
          THEN /\ resp' = Response("create", u, 0, 429, {}, 0)
               /\ UNCHANGED <<resumes, next_id>>
          ELSE /\ next_id <= MaxIds
               /\ resumes' = [resumes EXCEPT ![next_id] = Resume(next_id, u, "cv", json_content)]
               /\ next_id' = next_id + 1
               /\ resp' = Response("create", u, next_id, 201,
                                   {Resume(next_id, u, "cv", json_content)}, 0)
    /\ UNCHANGED <<accounts, older, escape_vars, norm_vars, pipe_vars, info_vars, oauth_vars, reset_vars>>

\* GET /api/resumes
ListResumes(u) ==
    /\ resp' = Response("list", u, 0, 200, rows_of(u), resume_count(u))
    /\ UNCHANGED <<accounts, resumes, next_id, older,
                   escape_vars, norm_vars, pipe_vars, info_vars, oauth_vars, reset_vars>>

\* GET /api/resumes/{resume_id}
GetResume(u) ==
    /\ \E resume_id \in 1..MaxIds :
          LET resume == find_resume(resume_id, u)
          IN  resp' = IF resume = NoResume
                      THEN Response("get", u, resume_id, 404, {}, 0)
                      ELSE Response("get", u, resume_id, 200, {resume}, 0)
    /\ UNCHANGED <<accounts, resumes, next_id, older,
                   escape_vars, norm_vars, pipe_vars, info_vars, oauth_vars, reset_vars>>

\* PUT /api/resumes/{resume_id}: only the fields that are not None are written
UpdateResume(u) ==
    /\ \E resume_id \in 1..MaxIds, name \in {"None"} \cup (Names \ {"cv"}),
          json_content \in {"None"} \cup (Contents \ {"c1"}) :
          LET resume == find_resume(resume_id, u)
              updated == [resume EXCEPT
                            !.name = IF name # "None" THEN name ELSE @,
                            !.json_content = IF json_content # "None" THEN json_content ELSE @]
          IN  IF resume = NoResume
              THEN /\ resp' = Response("update", u, resume_id, 404, {}, 0)
                   /\ UNCHANGED resumes
              ELSE /\ resumes' = [resumes EXCEPT ![resume_id] = updated]
                   /\ resp' = Response("update", u, resume_id, 200, {updated}, 0)
    /\ UNCHANGED <<accounts, next_id, older, escape_vars, norm_vars, pipe_vars, info_vars, oauth_vars, reset_vars>>

\* DELETE /api/resumes/{resume_id}
DeleteResume(u) ==
    /\ \E resume_id \in 1..MaxIds :
          IF find_resume(resume_id, u) = NoResume
          THEN /\ resp' = Response("delete", u, resume_id, 404, {}, 0)
               /\ UNCHANGED resumes
          ELSE /\ resumes' = [resumes EXCEPT ![resume_id] = NoResume]
               /\ resp' = Response("delete", u, resume_id, 204, {}, 0)
    /\ UNCHANGED <<accounts, next_id, older, escape_vars, norm_vars, pipe_vars, info_vars, oauth_vars, reset_vars>>

(***************************************************************************)
(* Specification of the resume limit: user A, of any tier, with or without *)
(* the feedback bonus, owning no resume yet or one less than the limit,    *)
(* creates and deletes resumes                                             *)
(***************************************************************************)
InitLimit ==
    /\ \E tier \in {"guest", "regular", "premium"}, bonus \in {0, FEEDBACK_BONUS_RESUMES} :
          accounts = [u \in UserIds |-> IF u = "A" THEN Account(tier, bonus)
                                       ELSE Account("regular", 0)]
    /\ resumes = [i \in 1..MaxIds |-> NoResume]
    /\ next_id = 1
    /\ \E n \in {0, max_resumes(accounts["A"]) - 1} : older = [u \in UserIds |-> IF u = "A" THEN n ELSE 0]
    /\ resp = NoResponse
    /\ OAuthIdle
    /\ ResetIdle
    /\ EscapeIdle
    /\ NormIdle
    /\ PipeIdle
    /\ InfoIdle

NextLimit == CreateResume("A") \/ DeleteResume("A") \/ ListResumes("A")

SpecLimit == InitLimit /\ [][NextLimit]_vars

(***************************************************************************)
(* Specification of resume ownership: two regular users use the five       *)
(* routes on every id                                                      *)
(***************************************************************************)
InitOwnership ==
    /\ StoreIdle
    /\ OAuthIdle
    /\ ResetIdle
    /\ EscapeIdle
    /\ NormIdle
    /\ PipeIdle
    /\ InfoIdle

NextOwnership ==
    \E u \in UserIds :
       \/ CreateResume(u)
       \/ ListResumes(u)
       \/ GetResume(u)
       \/ UpdateResume(u)
       \/ DeleteResume(u)

SpecOwnership == InitOwnership /\ [][NextOwnership]_vars


(***************************************************************************)
(* The temporary OAuth codes: google_callback stores, exchange_oauth_code  *)
(* exchanges, time passes                                                  *)
(***************************************************************************)
\* _store_oauth_code(jwt_token): one reading of the clock for the cleanup, a
\* later one for the expiry of the new code
StoreOAuthCode ==
    /\ codes_made < MaxCodes
    /\ \E jwt_token \in JwtTokens, d \in {0, OAUTH_CODE_EXPIRE_SECONDS \div 2} :
          LET code == codes_made + 1
              kept == cleanup_expired_codes(code_store, clock)
          IN /\ clock + d <= MaxClock
             /\ clock' = clock + d
             /\ code_store' = [kept EXCEPT ![code] =
                                  Entry(jwt_token, clock' + OAUTH_CODE_EXPIRE_SECONDS)]
             /\ codes_made' = code
    /\ UNCHANGED <<returned, exchange, escape_vars, norm_vars, pipe_vars, info_vars,
                   store_vars, reset_vars>>

\* _exchange_oauth_code(code): cleanup at one reading of the clock, the
\* expiry test at a later one
ExchangeOAuthCode ==
    \E code \in Codes, d \in Elapsed :
       LET kept == cleanup_expired_codes(code_store, clock)
       IN /\ clock + d <= MaxClock
          /\ clock' = clock + d
          /\ IF ~kept[code].present
             THEN /\ code_store' = kept
                  /\ exchange' = Exchange(code, "None")
                  /\ returned' = returned
             ELSE /\ code_store' = pop(kept, code)
                  /\ IF is_expired(clock', kept[code].expiry)
                     THEN /\ exchange' = Exchange(code, "None")
                          /\ returned' = returned
                     ELSE /\ exchange' = Exchange(code, kept[code].jwt_token)
                          /\ returned' = [returned EXCEPT ![code] = @ + 1]
          /\ UNCHANGED <<codes_made, escape_vars, norm_vars, pipe_vars, info_vars,
                         store_vars, reset_vars>>

\* time passes between two calls
Advance ==
    /\ \E d \in Elapsed \ {0} :
          /\ clock + d <= MaxClock
          /\ clock' = clock + d
    /\ UNCHANGED <<code_store, codes_made, returned, exchange, escape_vars, norm_vars,
                   pipe_vars, info_vars, store_vars, reset_vars>>

InitOAuth ==
    /\ OAuthIdle
    /\ ResetIdle
    /\ StoreIdle
    /\ EscapeIdle
    /\ NormIdle
    /\ PipeIdle
    /\ InfoIdle

NextOAuth == StoreOAuthCode \/ ExchangeOAuthCode \/ Advance

SpecOAuth == InitOAuth /\ [][NextOAuth]_vars


(***************************************************************************)
(* Password reset: forgot_password mails a token, reset_password uses it   *)
(***************************************************************************)
\* forgot_password for the registered address: the token carries the first
\* ten characters of the current hash
ForgotPassword ==
    /\ reset_token = NoPayload
    /\ password_hash # NoHash
    /\ reset_token' = Payload("password_reset", hash_prefix(password_hash))
    /\ UNCHANGED <<password_hash, reset_expired, resets, reset_resp, escape_vars, norm_vars,
                   pipe_vars, info_vars, store_vars, oauth_vars>>

\* the thirty minutes of the token are over
ExpireResetToken ==
    /\ reset_token # NoPayload
    /\ ~reset_expired
    /\ reset_expired' = TRUE
    /\ UNCHANGED <<password_hash, reset_token, resets, reset_resp, escape_vars, norm_vars,
                   pipe_vars, info_vars, store_vars, oauth_vars>>

\* reset_password with the mailed token ("reset") or with a login token ("login")
ResetPassword ==
    /\ reset_token # NoPayload
    /\ resets < MaxResets
    /\ \E token \in {"reset", "login"}, password \in Passwords :
          LET payload == IF token = "login" THEN Payload("access", <<>>)
                         ELSE IF reset_expired THEN NoPayload
                         ELSE reset_token
          IN IF payload = NoPayload \/ payload.type # "password_reset"
             THEN /\ reset_resp' = ResetResponse(token, 400, "Invalid or expired reset token")
                  /\ UNCHANGED <<password_hash, resets>>
             ELSE IF password_hash = NoHash
             THEN /\ reset_resp' = ResetResponse(token, 400, "Invalid or expired reset token")
                  /\ UNCHANGED <<password_hash, resets>>
             ELSE IF hash_prefix(password_hash) # payload.hash
             THEN /\ reset_resp' = ResetResponse(token, 400, "This reset link has already been used")
                  /\ UNCHANGED <<password_hash, resets>>
             ELSE /\ password_hash' \in get_password_hash(password)
                  /\ resets' = resets + 1
                  /\ reset_resp' = ResetResponse(token, 200, "Password has been reset successfully.")
    /\ UNCHANGED <<reset_token, reset_expired, escape_vars, norm_vars, pipe_vars, info_vars,
                   store_vars, oauth_vars>>

\* the account was registered with a password
InitReset ==
    /\ password_hash \in get_password_hash("Passw0rd")
    /\ reset_token = NoPayload
    /\ reset_expired = FALSE
    /\ resets = 0
    /\ reset_resp = NoResetResponse
    /\ OAuthIdle
    /\ StoreIdle
    /\ EscapeIdle
    /\ NormIdle
    /\ PipeIdle
    /\ InfoIdle

NextReset == ForgotPassword \/ ExpireResetToken \/ ResetPassword

SpecReset == InitReset /\ [][NextReset]_vars

(***************************************************************************)
(* Specification of the section titles: get_section_title called directly  *)
(* and through either normalizer.                                          *)
(***************************************************************************)
InitTitle ==
    /\ section \in TitleSections
    /\ lang \in {"fr", "en"}
    /\ section_dict = NoResult
    /\ npc = "call"
    /\ EscapeIdle
    /\ PipeIdle
    /\ InfoIdle
    /\ StoreIdle
    /\ OAuthIdle
    /\ ResetIdle

NextTitle == CallGetSectionTitle \/ CallConvertSectionItems \/ CallApiConvertSectionItems

SpecTitle == InitTitle /\ [][NextTitle]_vars

(***************************************************************************)
(* Specification of PersonalInfo: one object is constructed from the       *)
(* request's values, then read by the handlers with model_dump().          *)
(***************************************************************************)
ConstructPersonalInfo ==
    /\ ipc = "call"
    /\ personal' = model_post_init(kwargs)
    /\ ipc' = IF personal'.exc = "" THEN "built" ELSE "raised"
    /\ UNCHANGED <<kwargs, dump, escape_vars, norm_vars, pipe_vars, store_vars, oauth_vars, reset_vars>>

ModelDump ==
    /\ ipc \in {"built", "read"}
    /\ dump' = model_dump(personal)
    /\ ipc' = "read"
    /\ UNCHANGED <<kwargs, personal, escape_vars, norm_vars, pipe_vars, store_vars, oauth_vars, reset_vars>>

InitPersonalInfo ==
    /\ kwargs \in PersonalInfoInputs
    /\ personal = NoPersonalInfo
    /\ dump = NoDump
    /\ ipc = "call"
    /\ EscapeIdle
    /\ NormIdle
    /\ PipeIdle
    /\ StoreIdle
    /\ OAuthIdle
    /\ ResetIdle

NextPersonalInfo == ConstructPersonalInfo \/ ModelDump

SpecPersonalInfo == InitPersonalInfo /\ [][NextPersonalInfo]_vars

(***************************************************************************)
(* generate_cv (app.py) and generate_resume_pdf (api/resumes.py), one      *)
(* action per step of the handler                                          *)
(***************************************************************************)
Set(w, r) == req' = [req EXCEPT ![w] = r]

Users ==
    {[is_guest |-> t = "guest", is_premium |-> t = "premium", bonus_downloads |-> b,
      download_count |-> 0, download_count_reset_at |-> 0] : t \in Tiers, b \in {0}}

\* the session's <<download_count, download_count_reset_at>> after the limit check
Session == get_monthly_download_count(user.download_count, user.download_count_reset_at, now)

\* the download limit is reached: 429, nothing is created
RejectOverLimit(w) ==
    /\ req[w].pc \in {"idle", "done"}
    /\ \E k \in {"generate", "resume"}, t \in TemplateInputs :
          /\ Session[1] >= max_downloads(user)
          /\ Set(w, [Idle EXCEPT !.kind = k, !.pc = "done", !.auth = TRUE, !.tin = t,
                                 !.status = 429, !.detail = "limit"])
    /\ UNCHANGED <<dirs, files, made_from, created, user, now, generated, escape_vars, norm_vars, info_vars, store_vars, oauth_vars, reset_vars>>

\* generate_resume_pdf: the resume is not the user's (404) or has no content (400)
RejectResume(w) ==
    /\ req[w].pc \in {"idle", "done"}
    /\ Session[1] < max_downloads(user)
    /\ \E t \in TemplateInputs, st \in {404, 400} :
          Set(w, [Idle EXCEPT !.kind = "resume", !.pc = "done", !.auth = TRUE, !.tin = t,
                              !.status = st, !.detail = "resume"])
    /\ UNCHANGED <<dirs, files, made_from, created, user, now, generated, escape_vars, norm_vars, info_vars, store_vars, oauth_vars, reset_vars>>

\* the checks pass: tempfile.mkdtemp creates the working directory
Begin(w) ==
    /\ req[w].pc \in {"idle", "done"}
    /\ created < MaxDirs
    /\ \E k \in {"generate", "resume"}, a \in BOOLEAN, t \in TemplateInputs :
          /\ k = "resume" => a
          /\ a => Session[1] < max_downloads(user)
          /\ Set(w, [Idle EXCEPT !.kind = k, !.pc = "resolve", !.auth = a, !.tin = t,
                                 !.data = w,
                                 !.dir = mkdtemp(created),
                                 !.count = IF a THEN Session[1] ELSE 0,
                                 !.reset = IF a THEN Session[2] ELSE 0])
    /\ created' = created + 1
    /\ dirs' = dirs \cup {mkdtemp(created)}
    /\ files' = [files EXCEPT ![mkdtemp(created)] = {}]
    /\ made_from' = [made_from EXCEPT ![mkdtemp(created)] = NoContent]
    /\ UNCHANGED <<user, now, generated, escape_vars, norm_vars, info_vars, store_vars, oauth_vars, reset_vars>>

on_exception_skip_finally(exc) == "finish"

\* a failure after which the handler goes on with the reading of the output
on_exception_continue(exc) == "read"

\* where control goes when the try block raises: each except clause raises an
\* HTTPException and the finally block runs before it leaves the handler
on_exception(exc) == "cleanup"

Fail(w, exc, stage) ==
    Set(w, [req[w] EXCEPT !.pc = on_exception(exc), !.exc = exc, !.stage = stage])

\* the template is resolved against VALID_TEMPLATES and copied; shutil.copy
\* raises when neither the template file nor the default one exists
ResolveTemplate(w) ==
    /\ req[w].pc = "resolve"
    /\ LET template_id == resolve_template(req[w].tin)
       IN  \E src_exists \in BOOLEAN, default_exists \in BOOLEAN :
              /\ template_id = DEFAULT_TEMPLATE => src_exists = default_exists
              /\ IF src_exists \/ default_exists
                 THEN /\ Set(w, [req[w] EXCEPT !.pc = "render", !.tid = template_id])
                      /\ files' = [files EXCEPT ![req[w].dir] = @ \cup {File("template", ".tex")}]
                 ELSE /\ Set(w, [req[w] EXCEPT !.pc = on_exception("FileNotFoundError"),
                                               !.tid = template_id,
                                               !.exc = "FileNotFoundError", !.stage = "copy"])
                      /\ UNCHANGED files
    /\ UNCHANGED <<dirs, made_from, created, user, now, generated, escape_vars, norm_vars, info_vars, store_vars, oauth_vars, reset_vars>>

\* the sections are normalized, the template rendered, main.tex written
Render(w) ==
    /\ req[w].pc = "render"
    /\ \E outcome \in {"ok", "AttributeError", "RuntimeError"} :
          IF File("template", ".tex") \notin files[req[w].dir]
          THEN Fail(w, "FileNotFoundError", "render") /\ UNCHANGED <<files, made_from>>
          ELSE IF outcome = "AttributeError"
          THEN Fail(w, "AttributeError", "normalize") /\ UNCHANGED <<files, made_from>>
          ELSE IF outcome = "RuntimeError"
          THEN Fail(w, "RuntimeError", "render") /\ UNCHANGED <<files, made_from>>
          ELSE /\ Set(w, [req[w] EXCEPT !.pc = "compile"])
               /\ files' = [files EXCEPT ![req[w].dir] = @ \cup {File("main", ".tex")}]
               /\ made_from' = [made_from EXCEPT ![req[w].dir].tex = req[w].data]
    /\ UNCHANGED <<dirs, created, user, now, generated, escape_vars, norm_vars, info_vars, store_vars, oauth_vars, reset_vars>>

\* PdfCompiler(tex_file).compile(clean=True)
Compile(w) ==
    /\ req[w].pc = "compile"
    /\ \E outcome \in CompilerOutcomes, stderr \in Stderrs :
          LET r == compile(File("main", ".tex"), req[w].dir, files[req[w].dir],
                           outcome, stderr, TRUE)
          IN  /\ files' = [files EXCEPT ![req[w].dir] = r.files]
              /\ made_from' = [made_from EXCEPT ![req[w].dir].pdf =
                                IF File("main", ".pdf") \in r.files
                                THEN made_from[req[w].dir].tex ELSE ""]
              /\ Set(w, [req[w] EXCEPT
                           !.cmd = IF r.started THEN r.cmd ELSE @,
                           !.ncompile = IF r.started THEN @ + 1 ELSE @,
                           !.pc = IF r.exc # "" THEN on_exception(r.exc) ELSE "read",
                           !.exc = r.exc,
                           !.stage = IF r.exc # "" THEN "compile" ELSE ""])
    /\ UNCHANGED <<dirs, created, user, now, generated, escape_vars, norm_vars, info_vars, store_vars, oauth_vars, reset_vars>>

\* main.pdf is checked and read into memory
ReadPdf(w) ==
    /\ req[w].pc = "read"
    /\ IF File("main", ".pdf") \notin files[req[w].dir]
       THEN Fail(w, "HTTPException", "nopdf")
       ELSE Set(w, [req[w] EXCEPT !.pc = "cleanup", !.pdf_content = req[w].dir,
                                  !.compiled_from = made_from[req[w].dir].pdf])
    /\ UNCHANGED <<dirs, files, made_from, created, user, now, generated, escape_vars, norm_vars, info_vars, store_vars, oauth_vars, reset_vars>>

\* a with block that lets the exception of rmtree out: it replaces the pending one
suppress_nothing(pending, raised) == IF raised THEN "OSError" ELSE pending

\* with contextlib.suppress(Exception): the exception pending after the block
\* is the one pending before it, whether the body raised or not
suppress(pending, raised) == pending

\* finally: shutil.rmtree(temp_path), its own failure suppressed
Cleanup(w) ==
    /\ req[w].pc = "cleanup"
    /\ \E removed \in BOOLEAN :
          /\ dirs' = IF removed THEN dirs \ {req[w].dir} ELSE dirs
          /\ files' = IF removed THEN [files EXCEPT ![req[w].dir] = {}] ELSE files
          /\ made_from' = IF removed THEN [made_from EXCEPT ![req[w].dir] = NoContent] ELSE made_from
          /\ Set(w, [req[w] EXCEPT !.pc = "finish",
                                   !.exc = suppress(req[w].exc, ~removed),
                                   !.rmtree = IF removed THEN "removed" ELSE "suppressed"])
    /\ UNCHANGED <<created, user, now, generated, escape_vars, norm_vars, info_vars, store_vars, oauth_vars, reset_vars>>

\* the except clauses pick the response of a failed request; a successful one
\* increments download_count, commits and returns the bytes
Finish(w) ==
    /\ req[w].pc = "finish"
    /\ IF req[w].exc = ""
       THEN /\ Set(w, [req[w] EXCEPT !.pc = "done", !.status = 200, !.detail = "",
                                     !.body = req[w].pdf_content])
            /\ user' = IF req[w].auth
                       THEN [user EXCEPT !.download_count = req[w].count + 1,
                                         !.download_count_reset_at = req[w].reset]
                       ELSE user
            /\ generated' = IF req[w].auth
                            THEN [generated EXCEPT ![req[w].reset] = @ + 1]
                            ELSE generated
       ELSE /\ Set(w, [req[w] EXCEPT
                         !.pc = "done", !.status = 500,
                         !.detail = CASE req[w].exc = "RuntimeError" -> "compilation"
                                      [] req[w].exc = "HTTPException" -> "nopdf"
                                      [] OTHER -> "unexpected"])
            /\ UNCHANGED <<user, generated>>
    /\ UNCHANGED <<dirs, files, made_from, created, now, escape_vars, norm_vars, info_vars, store_vars, oauth_vars, reset_vars>>

(***************************************************************************)
(* find_optimal_size (app.py): every size variant is compiled in a         *)
(* directory of its own by generate_pdf_and_count_pages                    *)
(***************************************************************************)
Tested(size, page_count) == [size |-> size, page_count |-> page_count]

OptimalStart(w) ==
    /\ req[w].pc \in {"idle", "done"}
    /\ \E t \in TemplateInputs :
          Set(w, [Idle EXCEPT !.kind = "optimal", !.pc = "size", !.tin = t, !.i = 1,
                              !.data = w])
    /\ UNCHANGED <<dirs, files, made_from, created, user, now, generated, escape_vars, norm_vars, info_vars, store_vars, oauth_vars, reset_vars>>

\* how a call of generate_pdf_and_count_pages ends: shutil.copy raises, the
\* renderer raises, the compiler raises, main.pdf is missing, pdfplumber raises,
\* or the pages are counted (one, or more than one)
GenerateOutcomes == {"copy", "render", "failed", "nopdf", "count", "one_page", "more_pages"}

\* the files generate_pdf_and_count_pages leaves in its directory
files_after_generate(d, outcome) ==
    IF outcome = "copy" THEN {}
    ELSE IF outcome = "render" THEN {File("template", ".tex")}
    ELSE after_compile(File("main", ".tex"), {File("template", ".tex"), File("main", ".tex")},
                       IF outcome \in {"failed", "nopdf"} THEN outcome ELSE "pdf", TRUE)

\* one iteration of the loop over SIZE_VARIANTS
OptimalTry(w) ==
    /\ req[w].pc = "size"
    /\ req[w].i <= Len(SIZE_VARIANTS)
    /\ LET size == SIZE_VARIANTS[req[w].i]
           template_id == get_template_with_size(get_base_template(req[w].tin), size)
           d == mkdtemp(created)
       IN  IF template_id \notin VALID_TEMPLATES
           THEN /\ Set(w, [req[w] EXCEPT !.i = @ + 1])
                /\ UNCHANGED <<dirs, files, made_from, created>>
           ELSE /\ created < MaxDirs
                /\ created' = created + 1
                /\ dirs' = dirs \cup {d}
                /\ \E outcome \in GenerateOutcomes :
                      /\ files' = [files EXCEPT ![d] = files_after_generate(d, outcome)]
                      /\ made_from' = [made_from EXCEPT ![d] =
                            Content(IF outcome \in {"copy", "render"} THEN "" ELSE req[w].data,
                                    IF outcome \in {"copy", "render", "failed", "nopdf"}
                                    THEN "" ELSE req[w].data)]
                      /\ Set(w, [req[w] EXCEPT
                           !.cmd = IF outcome \in {"copy", "render"} THEN @
                                   ELSE compile_cmd(File("main", ".tex"), d, TRUE),
                           !.ncompile = IF outcome \in {"copy", "render"} THEN @ ELSE @ + 1,
                           !.runs = Append(@, [dir |-> d, outcome |-> outcome]),
                           !.temp_dirs = IF outcome \in {"one_page", "more_pages"}
                                         THEN @ \cup {d} ELSE @,
                           !.tested = Append(@, Tested(size, CASE outcome = "one_page" -> 1
                                                               [] outcome = "more_pages" -> 2
                                                               [] OTHER -> 0)),
                           !.i = IF outcome = "one_page" THEN @ ELSE @ + 1,
                           !.pc = IF outcome = "one_page" THEN "sweep" ELSE "size",
                           !.tid = IF outcome = "one_page" THEN template_id ELSE @,
                           !.detail = IF outcome = "one_page" THEN size ELSE @])
    /\ UNCHANGED <<user, now, generated, escape_vars, norm_vars, info_vars, store_vars, oauth_vars, reset_vars>>

\* no size fits on one page: compact is the answer
OptimalFallback(w) ==
    /\ req[w].pc = "size"
    /\ req[w].i > Len(SIZE_VARIANTS)
    /\ Set(w, [req[w] EXCEPT
                 !.pc = "sweep", !.detail = "compact",
                 !.tid = get_template_with_size(get_base_template(req[w].tin), "compact")])
    /\ UNCHANGED <<dirs, files, made_from, created, user, now, generated, escape_vars, norm_vars, info_vars, store_vars, oauth_vars, reset_vars>>

\* finally: shutil.rmtree on each directory of temp_dirs, failures suppressed
OptimalCleanup(w) ==
    /\ req[w].pc = "sweep"
    /\ \E kept \in SUBSET req[w].temp_dirs :
          /\ dirs' = dirs \ (req[w].temp_dirs \ kept)
          /\ files' = [d \in DOMAIN files |->
                         IF d \in req[w].temp_dirs \ kept THEN {} ELSE files[d]]
          /\ made_from' = [d \in DOMAIN made_from |->
                         IF d \in req[w].temp_dirs \ kept THEN NoContent ELSE made_from[d]]
          /\ Set(w, [req[w] EXCEPT !.pc = "done", !.status = 200,
                                   !.rmtree = IF kept = {} THEN "removed" ELSE "suppressed"])
    /\ UNCHANGED <<created, user, now, generated, escape_vars, norm_vars, info_vars, store_vars, oauth_vars, reset_vars>>

(***************************************************************************)
(* ResumeBuilder.build, in the project directory (directory 0)             *)
(***************************************************************************)
Build(w) ==
    /\ req[w].pc \in {"idle", "done"}
    /\ \E outcome \in {"load", "template_not_found", "render"} \cup CompilerOutcomes :
          IF outcome \in {"load", "template_not_found", "render"}
          THEN /\ files' = [files EXCEPT ![0] = clean_auxiliary_files(File("main", ".tex"), @)]
               /\ Set(w, [Idle EXCEPT
                            !.kind = "build", !.pc = "done", !.status = 1,
                            !.exc = CASE outcome = "load" -> "Exception"
                                      [] outcome = "template_not_found" -> "FileNotFoundError"
                                      [] OTHER -> "RuntimeError",
                            !.stage = IF outcome = "load" THEN "load" ELSE "render"])
          ELSE /\ files' = [files EXCEPT ![0] =
                              clean_auxiliary_files(File("main", ".tex"),
                                  after_compile(File("main", ".tex"), @ \cup {File("main", ".tex")},
                                                outcome, FALSE))]
               /\ Set(w, [Idle EXCEPT
                            !.kind = "build", !.pc = "done",
                            !.cmd = compile_cmd(File("main", ".tex"), 0, FALSE), !.ncompile = 1,
                            !.status = IF outcome = "failed" THEN 1 ELSE 0,
                            !.exc = IF outcome = "failed" THEN "RuntimeError" ELSE "",
                            !.stage = IF outcome = "failed" THEN "compile" ELSE ""])
    /\ UNCHANGED <<dirs, made_from, created, user, now, generated, escape_vars, norm_vars, info_vars, store_vars, oauth_vars, reset_vars>>

(***************************************************************************)
(* PdfCompiler called directly, as its tests do: one call per behaviour,   *)
(* in directory 0, on a source file that may or may not be there           *)
(***************************************************************************)
CompilerDirFiles ==
    {File("main", ".tex"), File("main", ".aux"), File("main", ".out"),
     File("main", ".synctex.gz"), File("main", ".pdf"),
     File("other", ".tex"), File("other", ".aux")}

TexFiles == {File("main", ".tex"), File("other", ".tex")}

\* PdfCompiler(tex).compile(clean)
CallCompile(w) ==
    /\ req[w].pc = "idle"
    /\ \E tex \in TexFiles, clean \in BOOLEAN, outcome \in CompilerOutcomes, stderr \in Stderrs :
          LET r == compile(tex, 0, files[0], outcome, stderr, clean)
          IN  /\ files' = [files EXCEPT ![0] = r.files]
              /\ Set(w, [Idle EXCEPT
                           !.kind = "compiler", !.pc = "done", !.exc = r.exc,
                           !.ncompile = IF r.started THEN 1 ELSE 0, !.cmd = r.cmd,
                           !.call = Call("compile", tex, clean, outcome, stderr, files[0], r)])
    /\ UNCHANGED <<dirs, made_from, created, user, now, generated, escape_vars, norm_vars, info_vars, store_vars, oauth_vars, reset_vars>>

\* PdfCompiler(tex)._clean_auxiliary_files()
CallCleanAuxiliaryFiles(w) ==
    /\ req[w].pc = "idle"
    /\ \E tex \in TexFiles :
          LET fs == clean_auxiliary_files(tex, files[0])
          IN  /\ files' = [files EXCEPT ![0] = fs]
              /\ Set(w, [Idle EXCEPT
                           !.kind = "compiler", !.pc = "done",
                           !.call = Call("clean", tex, FALSE, "", "", files[0],
                                         Outcome("", "", "", FALSE, NoCmd, fs))])
    /\ UNCHANGED <<dirs, made_from, created, user, now, generated, escape_vars, norm_vars, info_vars, store_vars, oauth_vars, reset_vars>>

InitCompiler ==
    /\ req = [w \in Tasks |-> Idle]
    /\ dirs = {}
    /\ made_from = [d \in 0..MaxDirs |-> NoContent]
    /\ \E fs \in SUBSET CompilerDirFiles : files = [d \in 0..MaxDirs |-> IF d = 0 THEN fs ELSE {}]
    /\ created = 0
    /\ user \in Users
    /\ now = 1
    /\ generated = [m \in 1..MaxMonth |-> 0]
    /\ EscapeIdle
    /\ NormIdle
    /\ InfoIdle
    /\ StoreIdle
    /\ OAuthIdle
    /\ ResetIdle

NextCompiler == \E w \in Workers : CallCompile(w) \/ CallCleanAuxiliaryFiles(w)

SpecCompiler == InitCompiler /\ [][NextCompiler]_vars

(***************************************************************************)
(* Specification of the PDF generation handlers                            *)
(***************************************************************************)
Init ==
    /\ req = [w \in Tasks |-> Idle]
    /\ dirs = {}
    /\ made_from = [d \in 0..MaxDirs |-> NoContent]
    /\ files = [d \in 0..MaxDirs |-> {}]
    /\ created = 0
    /\ user \in Users
    /\ now = 1
    /\ generated = [m \in 1..MaxMonth |-> 0]
    /\ EscapeIdle
    /\ NormIdle
    /\ InfoIdle
    /\ StoreIdle
    /\ OAuthIdle
    /\ ResetIdle

Next ==
    \/ \E w \in Workers :
          \/ RejectOverLimit(w)
          \/ RejectResume(w)
          \/ Begin(w)
          \/ ResolveTemplate(w)
          \/ Render(w)
          \/ Compile(w)
          \/ ReadPdf(w)
          \/ Cleanup(w)
          \/ Finish(w)
          \/ OptimalStart(w)
          \/ OptimalTry(w)
          \/ OptimalFallback(w)
          \/ OptimalCleanup(w)
          \/ Build(w)

Spec == Init /\ [][Next]_vars

(***************************************************************************)
(* Specification of the monthly download limit: one user of any tier, with *)
(* or without the feedback bonus, whose stored counter is fresh, one below *)
(* the limit or at the limit, sends requests one after another while the   *)
(* calendar moves on                                                       *)
(***************************************************************************)
FEEDBACK_BONUS_DOWNLOADS == 5

AllTiers == {"guest", "regular", "premium"}

\* the users row: a user who never generated (counter 0, no reset timestamp)
\* or whose counter was last written in the current month
QuotaUsers ==
    {u \in [is_guest : BOOLEAN, is_premium : BOOLEAN,
            bonus_downloads : {0, FEEDBACK_BONUS_DOWNLOADS},
            download_count : 0..(MAX_DOWNLOADS_PER_PREMIUM + FEEDBACK_BONUS_DOWNLOADS),
            download_count_reset_at : {0, 1}] :
        /\ ~(u.is_guest /\ u.is_premium)
        /\ u.download_count \in {0, max_downloads(u) - 1, max_downloads(u)}
        /\ u.download_count > 0 => u.download_count_reset_at = 1}

\* datetime.now(UTC) enters the next calendar month
Tick ==
    /\ now < MaxMonth
    /\ now' = now + 1
    /\ UNCHANGED <<req, dirs, files, made_from, created, user, generated,
                   escape_vars, norm_vars, info_vars, store_vars, oauth_vars, reset_vars>>

InitQuota ==
    /\ req = [w \in Tasks |-> Idle]
    /\ dirs = {}
    /\ made_from = [d \in 0..MaxDirs |-> NoContent]
    /\ files = [d \in 0..MaxDirs |-> {}]
    /\ created = 0
    /\ user \in QuotaUsers
    /\ now = 1
    /\ generated = [m \in 1..MaxMonth |-> IF m = 1 THEN user.download_count ELSE 0]
    /\ EscapeIdle
    /\ NormIdle
    /\ InfoIdle
    /\ StoreIdle
    /\ OAuthIdle
    /\ ResetIdle

\* the requests name the default template
LimitReached(w) == RejectOverLimit(w) /\ req'[w].tin = DEFAULT_TEMPLATE
ResumeMissing(w) == RejectResume(w) /\ req'[w].tin = DEFAULT_TEMPLATE
LimitPassed(w) == Begin(w) /\ req'[w].tin = DEFAULT_TEMPLATE

NextQuota ==
    \/ \E w \in Workers :
          \/ LimitReached(w)
          \/ ResumeMissing(w)
          \/ LimitPassed(w)
          \/ ResolveTemplate(w)
          \/ Render(w)
          \/ Compile(w)
          \/ ReadPdf(w)
          \/ Cleanup(w)
          \/ Finish(w)
    \/ Tick

SpecQuota == InitQuota /\ [][NextQuota]_vars

(***************************************************************************)
(* Specification of concurrent generation: every task runs the handlers,   *)
(* and the steps of the requests in flight interleave in any order         *)
(***************************************************************************)
\* a POST /generate request for the default template
BeginGenerate(w) ==
    /\ Begin(w)
    /\ req'[w].kind = "generate"
    /\ req'[w].tin = DEFAULT_TEMPLATE

NextConcurrent ==
    \E w \in Tasks :
       \/ BeginGenerate(w)
       \/ ResolveTemplate(w)
       \/ Render(w)
       \/ Compile(w)
       \/ ReadPdf(w)
       \/ Cleanup(w)
       \/ Finish(w)

\* the requests are anonymous or made by one registered user
InitConcurrent == Init /\ ~user.is_guest

SpecConcurrent == InitConcurrent /\ [][NextConcurrent]_vars

\* the same, for requests that are anonymous or made by one guest user
InitConcurrentGuest == Init /\ user.is_guest

SpecConcurrentGuest == InitConcurrentGuest /\ [][NextConcurrent]_vars

(***************************************************************************)
(* Properties of the escaper                                               *)
(***************************************************************************)
Letters ==
    {"a","b","c","d","e","f","g","h","i","j","k","l","m","n","o","p","q","r","s",
     "t","u","v","w","x","y","z","B","R"}

HasPrefixAt(s, i, tok) ==
    /\ i + Len(tok) - 1 <= Len(s)
    /\ SubSeq(s, i, i + Len(tok) - 1) = tok

Contains(s, sub) == \E i \in 1..Len(s) : HasPrefixAt(s, i, sub)

SymbolTokens == {<<BSL, c>> : c \in {"{", "}", "&", "%", "$", "#", "_"}}

WordTokens ==
    { <<BSL, "t","e","x","t","b","a","c","k","s","l","a","s","h">>,
      <<BSL, "t","e","x","t","a","s","c","i","i","t","i","l","d","e">>,
      <<BSL, "t","e","x","t","a","s","c","i","i","c","i","r","c","u","m">> }

\* the backslash at position i of s begins a safe token; a word token ends where
\* the command name ends (no letter of the input extends it)
BeginsSafeToken(s, i) ==
    \/ \E tok \in SymbolTokens : HasPrefixAt(s, i, tok)
    \/ \E tok \in WordTokens :
          /\ HasPrefixAt(s, i, tok)
          /\ (i + Len(tok) > Len(s) \/ s[i + Len(tok)] \notin Letters)

InjectionPrefixes ==
    { <<BSL, "i","n","p","u","t", "{">>, <<BSL, "w","r","i","t","e","1","8", "{">> }

\* C3: every backslash of escape_latex(s) begins one of the fixed safe tokens and
\* never a command name taken from s; an input containing \input{ or \write18{
\* yields an output without that substring.
C3_BackslashesBeginSafeTokens ==
    (epc = "ret" /\ text.tag = "str") =>
        /\ \A i \in 1..Len(escaped.chars) :
              escaped.chars[i] = BSL => BeginsSafeToken(escaped.chars, i)
        /\ \A inj \in InjectionPrefixes :
              Contains(text.chars, inj) => ~Contains(escaped.chars, inj)

C3_Witness ==
    /\ epc = "ret"
    /\ text.tag = "str"
    /\ Contains(text.chars, <<BSL, "i","n","p","u","t", "{">>)
    /\ Contains(escaped.chars, <<"}", "i","n","p","u","t", BSL, "{">>)

\* the image of one character under the three steps taken in order
CharImage(c) ==
    CASE c = BSL -> <<BSL, "t","e","x","t","b","a","c","k","s","l","a","s","h", BSL, "{", BSL, "}">>
      [] c \in {"{", "}", "&", "%", "$", "#", "_"} -> <<BSL, c>>
      [] c = "~" -> <<BSL, "t","e","x","t","a","s","c","i","i","t","i","l","d","e", "{", "}">>
      [] c = "^" -> <<BSL, "t","e","x","t","a","s","c","i","i","c","i","r","c","u","m", "{", "}">>
      [] OTHER -> <<c>>

RECURSIVE ConcatImages(_)
ConcatImages(s) ==
    IF s = <<>> THEN <<>> ELSE CharImage(Head(s)) \o ConcatImages(Tail(s))

\* C4: escape_latex(s) is the concatenation of the per-character images
\* (backslash -> \textbackslash\{\}, braces and & % $ # _ backslash-prefixed,
\* ~ and ^ -> their macros with a raw {} pair, any other character itself).
C4_PerCharacterImages ==
    (epc = "ret" /\ text.tag = "str") => escaped.chars = ConcatImages(text.chars)

C4_Witness ==
    /\ epc = "ret"
    /\ text = Str(<<BSL, "{", "~">>)
    /\ Len(escaped.chars) = 18 + 2 + 17

HasSpecial(s) == \E i \in 1..Len(s) : s[i] \in Specials

\* C5: escape_latex returns its argument unchanged when it is not a str or is a
\* str without any of the ten special characters.
C5_UnchangedWithoutSpecials ==
    (epc = "ret" /\ (text.tag # "str" \/ ~HasSpecial(text.chars))) => escaped = text

C5_Witness ==
    /\ epc = "ret"
    /\ text.tag = "list"
    /\ HasSpecial(text.chars)
    /\ escaped = text

C5_WitnessPlain ==
    /\ epc = "ret"
    /\ text = Str(<<"R", "é", "s", "u", "m", "é">>)
    /\ escaped = text

(***************************************************************************)
(* Properties of the normalizers                                           *)
(***************************************************************************)
Returned == npc \in {"app", "api"}
TextTypes == {"summary", "languages"}
ListTypes == {"education", "experiences", "projects", "leadership", "custom"}
TypeOf(sec) == IF sec.type = "absent" THEN "custom" ELSE sec.type
ItemsOf(sec) == IF sec.items.tag = "absent" THEN VList(<<>>) ELSE sec.items

IsLegacySkills(v) == v.tag = "dict" /\ v.languages.tag = "str" /\ v.tools.tag = "str"

\* the items value has the shape of its section type
WellShaped(sec) ==
    CASE TypeOf(sec) \in TextTypes -> ItemsOf(sec).tag = "str"
      [] TypeOf(sec) = "skills" -> IsLegacySkills(ItemsOf(sec)) \/ ItemsOf(sec).tag = "list"
      [] OTHER -> ItemsOf(sec).tag = "list"

\* the type-specific emptiness test of a well-shaped section
EmptinessTest(sec) ==
    LET v == ItemsOf(sec)
    IN  CASE TypeOf(sec) \in TextTypes -> strip(v.chars) # <<>>
          [] TypeOf(sec) = "skills" ->
                IF v.tag = "dict"
                THEN strip(v.languages.chars) # <<>> \/ strip(v.tools.chars) # <<>>
                ELSE \E i \in 1..Len(v.elems) : strip(v.elems[i].skills) # <<>>
          [] OTHER -> v.elems # <<>>

\* C7: every normalized section carries has_content, true exactly when the
\* type-specific emptiness test passes (trimmed text non-empty; a skills field or
\* category non-blank; item list non-empty).
C7_HasContentIsEmptinessTest ==
    (Returned /\ WellShaped(section)) =>
        /\ ~section_dict.raised
        /\ "has_content" \in section_dict.keys
        /\ section_dict.has_content = EmptinessTest(section)

\* the list-of-categories rendering of a legacy skills record
LegacyCategories(v) ==
    (IF strip(v.languages.chars) # <<>>
     THEN <<Elem("dict", ProgrammingLanguages, v.languages.chars)>> ELSE <<>>)
    \o
    (IF strip(v.tools.chars) # <<>>
     THEN <<Elem("dict", Tools, v.tools.chars)>> ELSE <<>>)

\* C8: a skills section whose items is the legacy record {languages, tools} is
\* normalized to a list with one {category, skills} entry per non-blank field,
\* languages before tools, and to the empty list when both are blank.
C8_LegacySkillsBecomeCategoryList ==
    (Returned /\ TypeOf(section) = "skills" /\ IsLegacySkills(section.items)) =>
        /\ ~section_dict.raised
        /\ section_dict.content = VList(LegacyCategories(section.items))

\* C9: a skills section whose items is a list of {category, skills} records is
\* normalized to that list, records and order preserved.
C9_SkillsListPreserved ==
    (Returned /\ TypeOf(section) = "skills" /\ section.items.tag = "list"
        /\ \A i \in 1..Len(section.items.elems) : section.items.elems[i].kind = "dict") =>
        /\ ~section_dict.raised
        /\ section_dict.content = section.items

\* the items value does not have the shape of its section type
Mismatched(sec) ==
    CASE TypeOf(sec) \in TextTypes -> ItemsOf(sec).tag # "str"
      [] TypeOf(sec) = "skills" ->
            \/ ItemsOf(sec).tag \notin {"dict", "list", "SkillsItem"}
            \/ /\ ItemsOf(sec).tag = "dict"
               /\ \E f \in {ItemsOf(sec).languages, ItemsOf(sec).tools} :
                     f.tag \in {"int", "NoneType"}
      [] OTHER -> ItemsOf(sec).tag # "list"

EmptyContent(sec) == IF TypeOf(sec) \in TextTypes THEN VStr(<<>>) ELSE VList(<<>>)

\* C10: an items value whose shape does not match the section type is normalized
\* without raising, to empty content (empty string or empty list) and has_content
\* false.
C10_MismatchedShapeDegradesToEmpty ==
    (Returned /\ Mismatched(section)) =>
        /\ ~section_dict.raised
        /\ section_dict.content = EmptyContent(section)
        /\ "has_content" \in section_dict.keys
        /\ ~section_dict.has_content

(***************************************************************************)
(* Properties of the PDF generation handlers                               *)
(***************************************************************************)
Range(s) == {s[k] : k \in DOMAIN s}

Handlers == {"generate", "resume"}

\* the request has left the try/finally block of its handler
Returning(r) == r.kind \in Handlers /\ r.dir # 0 /\ r.pc \in {"finish", "done"}

C6_UnknownTemplateFallsBackToDefault ==
    \A w \in Workers :
        (/\ req[w].kind \in Handlers
         /\ req[w].tin \notin VALID_TEMPLATES
         /\ req[w].dir # 0
         /\ req[w].pc # "resolve")
        => /\ req[w].tid = DEFAULT_TEMPLATE
           /\ req[w].tid.base = "harvard"
           /\ req[w].status \in {0, 200, 500}

\* a request naming an unknown template has returned the PDF built from harvard
C6_Witness ==
    \E w \in Workers :
        /\ req[w].kind = "generate" /\ req[w].pc = "done"
        /\ req[w].tin = Template("nonexistent_template", <<>>)
        /\ req[w].tid = Template("harvard", <<>>)
        /\ req[w].status = 200 /\ req[w].body = req[w].dir /\ req[w].ncompile = 1

(***************************************************************************)
(* Properties of the section titles                                        *)
(***************************************************************************)
TitleReturned == npc \in {"title", "app", "api"} /\ ~section_dict.raised

\* C11: for a non-custom section type and a language of {fr, en}, an empty title or
\* one of the type's default titles resolves to the type's title in that language;
\* any other title is returned unchanged.
C11_DefaultTitlesAreLocalized ==
    (TitleReturned /\ section.type # "custom") =>
        IF section.title = "" \/ section.title \in DEFAULT_TITLES(section.type)
        THEN section_dict.title = PDF_TRANSLATIONS(lang, section.type)
        ELSE section_dict.title = section.title

\* the French default of education, asked in English, came back as Education
C11_Witness ==
    /\ npc = "title" /\ section.type = "education" /\ section.title = "Formation"
    /\ lang = "en" /\ section_dict.title = "Education"

\* a default title of another type is a custom title here
C11_WitnessOtherType ==
    /\ npc = "app" /\ section.type = "education" /\ section.title = "Skills"
    /\ section_dict.title = "Skills"

\* C12: a custom section keeps any non-empty title, default placeholders included,
\* and gets the localized Other label (Autre / Other) only for the empty title.
C12_CustomTitleKept ==
    (TitleReturned /\ section.type = "custom") =>
        IF section.title # ""
        THEN section_dict.title = section.title
        ELSE section_dict.title = (IF lang = "fr" THEN "Autre" ELSE "Other")

\* the placeholder Autre, asked in English, stayed Autre
C12_Witness ==
    /\ npc = "title" /\ section.type = "custom" /\ section.title = "Autre"
    /\ lang = "en" /\ section_dict.title = "Autre"

\* the empty title of a custom section became Other
C12_WitnessEmpty ==
    /\ npc = "api" /\ section.type = "custom" /\ section.title = ""
    /\ lang = "en" /\ section_dict.title = "Other"

(***************************************************************************)
(* Properties of PdfCompiler                                               *)
(***************************************************************************)
Called(w, op) == req[w].kind = "compiler" /\ req[w].pc = "done" /\ req[w].call.op = op

\* C13: compile on a source path that does not exist raises FileNotFoundError
\* 'TeX file not found', and no external process has been started.
C13_MissingSourceFailsBeforeSubprocess ==
    \A w \in Workers :
        (Called(w, "compile") /\ req[w].call.tex \notin req[w].call.before) =>
            /\ req[w].call.result.exc = "FileNotFoundError"
            /\ req[w].call.result.msg = "TeX file not found"
            /\ ~req[w].call.result.started
            /\ req[w].ncompile = 0 /\ req[w].cmd = NoCmd
            /\ files[0] = req[w].call.before

\* compile was called on other.tex in a directory that only holds main.tex
C13_Witness ==
    \E w \in Workers :
        /\ Called(w, "compile")
        /\ req[w].call.tex = File("other", ".tex")
        /\ req[w].call.before = {File("main", ".tex")}
        /\ req[w].call.result.exc = "FileNotFoundError"
        /\ req[w].ncompile = 0

\* C14: a non-zero exit of the subprocess, with or without captured standard error,
\* makes compile raise RuntimeError 'LaTeX compilation failed' carrying the captured
\* text; CalledProcessError does not reach the caller.
C14_NonZeroExitBecomesCompilationFailed ==
    \A w \in Workers :
        (/\ Called(w, "compile")
         /\ req[w].call.tex \in req[w].call.before
         /\ req[w].call.outcome = "failed")
        => /\ req[w].call.result.exc = "RuntimeError"
           /\ req[w].call.result.msg = "LaTeX compilation failed"
           /\ req[w].call.stderr # "None" => req[w].call.result.diag = req[w].call.stderr
           /\ req[w].call.result.started

\* the subprocess failed without any standard error captured
C14_Witness ==
    \E w \in Workers :
        /\ Called(w, "compile")
        /\ req[w].call.outcome = "failed" /\ req[w].call.stderr = "None"
        /\ req[w].call.result.exc = "RuntimeError" /\ req[w].ncompile = 1

\* the subprocess failed and its standard error is in the error raised
C14_WitnessStderr ==
    \E w \in Workers :
        /\ Called(w, "compile")
        /\ req[w].call.outcome = "failed"
        /\ req[w].call.result.diag = "! LaTeX Error: File not found"

AllowList == {".aux", ".log", ".out", ".fls", ".fdb_latexmk", ".synctex.gz"}

\* the call ran the intermediate-file cleanup
Cleaned(c) == c.op = "clean" \/ (c.op = "compile" /\ c.clean /\ c.result.exc = "")

\* C15: the cleanup removes the files named by the source's base name and an
\* extension of the allow-list, and nothing else: the PDF and the files of another
\* base name stay; it does not fail when an allow-listed file is absent.
C15_CleanupRemovesOnlyAllowListed ==
    \A w \in Workers :
        (req[w].kind = "compiler" /\ req[w].pc = "done" /\ Cleaned(req[w].call)) =>
            LET c == req[w].call
            IN  /\ \A f \in c.before :
                      f \notin files[0] <=> (f[1] = c.tex[1] /\ f[2] \in AllowList)
                /\ \A f \in files[0] : ~(f[1] = c.tex[1] /\ f[2] \in AllowList)
                /\ c.op = "clean" => (files[0] \subseteq c.before /\ c.result.exc = "")

\* main.aux was removed, main.out was not there, main.pdf and other.aux stayed
C15_Witness ==
    \E w \in Workers :
        /\ Called(w, "clean")
        /\ req[w].call.tex = File("main", ".tex")
        /\ req[w].call.before =
              {File("main", ".tex"), File("main", ".aux"), File("main", ".pdf"), File("other", ".aux")}
        /\ files[0] = {File("main", ".tex"), File("main", ".pdf"), File("other", ".aux")}

(***************************************************************************)
(* Properties of the callers of the renderer and the compiler              *)
(***************************************************************************)
\* C16: when LatexRenderer.render fails with 'Template not found', the caller falls
\* back to the default template and renders once more, so no call ends with that
\* error.
C16_TemplateNotFoundIsRecovered ==
    \A w \in Workers :
        ~(req[w].pc = "done" /\ req[w].exc = "FileNotFoundError" /\ req[w].stage = "render")

\* the directories of the calls of generate_pdf_and_count_pages a request made
\* that ended in one of the outcomes
RunDirs(r, outcomes) == {r.runs[k].dir : k \in {j \in DOMAIN r.runs : r.runs[j].outcome \in outcomes}}

\* C17: when the compiler returns normally and main.pdf is not there, the request
\* fails with an error of its own, not the compilation error, returns no bytes, and
\* the working directory is removed (a removal that itself failed set apart).
C17_MissingPdfIsItsOwnFailure ==
    \A w \in Workers :
        /\ (req[w].kind \in Handlers /\ req[w].pc = "done" /\ req[w].stage = "nopdf") =>
              /\ req[w].exc = "HTTPException" /\ req[w].status = 500
              /\ req[w].detail = "nopdf"
              /\ req[w].body = 0 /\ req[w].pdf_content = 0
              /\ req[w].rmtree = "removed" => req[w].dir \notin dirs
        /\ (req[w].kind = "optimal" /\ req[w].pc = "done") =>
              RunDirs(req[w], {"nopdf"}) \cap dirs = {}

\* the same, for generate_cv and generate_resume_pdf only
MissingPdfInHandlers ==
    \A w \in Workers :
        (req[w].kind \in Handlers /\ req[w].pc = "done" /\ req[w].stage = "nopdf") =>
              /\ req[w].exc = "HTTPException" /\ req[w].status = 500
              /\ req[w].detail = "nopdf"
              /\ req[w].body = 0 /\ req[w].pdf_content = 0
              /\ req[w].rmtree = "removed" => req[w].dir \notin dirs

\* C20: once a request has returned, no working directory it created remains,
\* also when generating a size variant of /optimal-size failed (a removal that
\* itself failed set apart).
C20_NoDirectoryOutlivesItsRequest ==
    \A w \in Workers :
        (req[w].pc = "done" /\ req[w].rmtree # "suppressed") =>
            /\ req[w].dir \notin dirs
            /\ RunDirs(req[w], GenerateOutcomes) \cap dirs = {}

\* the directories of the variants that were generated and counted are removed
CountedVariantsAreRemoved ==
    \A w \in Workers :
        (req[w].kind = "optimal" /\ req[w].pc = "done" /\ req[w].rmtree = "removed") =>
            RunDirs(req[w], {"one_page", "more_pages"}) \cap dirs = {}

(***************************************************************************)
(* PersonalInfo                                                            *)
(***************************************************************************)
Constructed == ipc \in {"built", "read"}

GithubLink(github, github_url) ==
    <<ProfessionalLink("github", IF github.tag = "str" THEN github.chars ELSE <<>>,
                       IF github_url.tag = "str" THEN github_url.chars ELSE <<>>)>>

C18_WitnessLinksKept ==
    /\ ipc = "read"
    /\ Len(kwargs.links) = 2
    /\ FieldTruthy(kwargs.github)
    /\ personal.links = kwargs.links

C18_WitnessEmptyLegacy ==
    /\ Constructed
    /\ kwargs.links = <<>>
    /\ kwargs.github = FStr(<<>>)
    /\ kwargs.github_url = FNone
    /\ personal.links = <<>>

(***************************************************************************)
(* Concurrent requests                                                     *)
(***************************************************************************)
\* the request of task w is between mkdtemp and the end of its finally block
InPipeline(w) == req[w].pc \in {"resolve", "render", "compile", "read", "cleanup"}

\* task w takes this step, and no other task's request changes
StepOf(w) == req'[w] # req[w] /\ \A o \in Tasks \ {w} : req'[o] = req[o]

DirectoryTouched(d) ==
    files'[d] # files[d] \/ made_from'[d] # made_from[d] \/ (d \in dirs') # (d \in dirs)

DirectoriesAreDistinct ==
    \A w \in Tasks :
        \A o \in Tasks \ {w} :
            InPipeline(w) /\ InPipeline(o) => req[w].dir # req[o].dir

BytesAreOwn ==
    \A w \in Tasks :
        req[w].pc = "done" /\ req[w].status = 200
            => /\ req[w].body = req[w].dir
               /\ req[w].compiled_from = req[w].data
               /\ req[w].data = w

OnlyOwnerTouchesDirectory ==
    \A d \in 1..MaxDirs :
        DirectoryTouched(d)
            => \E w \in Tasks :
                  /\ StepOf(w)
                  /\ req'[w].dir = d
                  /\ \A o \in Tasks \ {w} : InPipeline(o) => req[o].dir # d

PipelineStepsShareNothing ==
    \A w \in Tasks :
        InPipeline(w) /\ StepOf(w) => UNCHANGED <<user, now, created>>

\* C19: under every interleaving of the steps of concurrent /generate
\* requests, the requests in their pipeline hold different working
\* directories, a directory's files change only in a step of the request that
\* holds it, a request that returns 200 returns the bytes of the main.pdf of
\* its own directory, compiled from its own data, and no step between mkdtemp
\* and the end of the finally block changes anything but the request's own
\* record and directory.
C19_ConcurrentRequestsAreIsolated ==
    /\ [](DirectoriesAreDistinct /\ BytesAreOwn)
    /\ [][OnlyOwnerTouchesDirectory /\ PipelineStepsShareNothing]_vars

\* the second request started overtakes the first and returns its own bytes
\* while the first is still about to compile
C19_Witness ==
    /\ req["w1"].pc = "done" /\ req["w1"].status = 200
    /\ req["w1"].compiled_from = "w1"
    /\ req["w2"].pc = "compile"
    /\ made_from[req["w2"].dir].tex = "w2"
    /\ req["w2"].dir < req["w1"].dir

(***************************************************************************)
(* Monthly download limit                                                  *)
(***************************************************************************)
\* task w starts a request of the authenticated user in this step
StartsAuthenticated(w) ==
    /\ req[w].pc \in {"idle", "done"}
    /\ req'[w] # req[w]
    /\ req'[w].auth

GenerationsWithinLimit == \A m \in 1..MaxMonth : generated[m] <= max_downloads(user)

RejectedBeforeRendering ==
    \A w \in Workers :
        req[w].status = 429
            => req[w].dir = 0 /\ req[w].ncompile = 0 /\ req[w].body = 0 /\ req[w].pc = "done"

AtLimitIsRejected ==
    \A w \in Workers :
        StartsAuthenticated(w) /\ Session[1] >= max_downloads(user)
            => /\ req'[w].status = 429
               /\ UNCHANGED <<dirs, files, created, user, generated>>

BelowLimitIsNotRejected ==
    \A w \in Workers :
        StartsAuthenticated(w) /\ Session[1] < max_downloads(user) => req'[w].status # 429

CounterRestartsOnlyInNewMonth ==
    user' # user
        => IF user.download_count_reset_at \in 1..(user'.download_count_reset_at - 1)
           THEN user'.download_count = 1
           ELSE user'.download_count = user.download_count + 1

\* C21: for one user sending authenticated generation requests one after
\* another, the requests checked in one calendar month and answered 200 never
\* number more than the tier limit plus bonus_downloads; a request checked
\* when the month's count is at or above the limit is answered 429 with no
\* directory made and nothing compiled; and a successful request adds one to
\* the stored counter, which restarts (from 0, so to 1) only when the stored
\* reset timestamp is of an earlier month.
C21_MonthlyDownloadsWithinLimit ==
    /\ [](GenerationsWithinLimit /\ RejectedBeforeRendering)
    /\ [][AtLimitIsRejected /\ BelowLimitIsNotRejected /\ CounterRestartsOnlyInNewMonth]_vars

\* a regular user one below the limit generates once, is then refused, and
\* generates again in the next month
C21_Witness ==
    /\ ~user.is_guest /\ ~user.is_premium /\ user.bonus_downloads = 0
    /\ generated[1] = MAX_DOWNLOADS_PER_USER
    /\ now = 2
    /\ user.download_count = 1 /\ user.download_count_reset_at = 2
    /\ generated[2] = 1
    /\ req["w1"].status = 200

C21_WitnessRejected ==
    /\ user.is_premium /\ user.bonus_downloads = FEEDBACK_BONUS_DOWNLOADS
    /\ generated[1] = MAX_DOWNLOADS_PER_PREMIUM + FEEDBACK_BONUS_DOWNLOADS
    /\ created = 1
    /\ req["w1"].status = 429

(***************************************************************************)
(* The download limit under concurrent requests                            *)
(***************************************************************************)
\* C30: whatever the interleaving of the requests of one user, the requests
\* answered 200 in a month never number more than the limit (two requests
\* never both pass the check one below the limit and both complete), and the
\* stored counter equals the number of requests answered 200 (no increment
\* is lost).
C30_LimitHoldsUnderConcurrency ==
    /\ GenerationsWithinLimit
    /\ user.download_count_reset_at = now => user.download_count = generated[now]

\* both requests of a guest passed the check at count 0 and were answered
\* 200, and the stored counter is 1
C30_BothPassAndComplete ==
    /\ \A w \in Tasks : req[w].pc = "done" /\ req[w].status = 200 /\ req[w].auth /\ req[w].count = 0
    /\ generated[1] = 2
    /\ user.download_count = 1

(***************************************************************************)
(* Properties of the resumes API                                           *)
(***************************************************************************)
\* the limit as the claim states it
ResumeLimit(u) ==
    (CASE accounts[u].is_guest -> 1
       [] accounts[u].is_premium -> 100
       [] OTHER -> 3) + accounts[u].bonus_resumes

\* this step is a request op of user u (a repeated identical request with the
\* same response leaves the state as it is)
RequestOf(op, u) == resp' # resp /\ resp'.op = op /\ resp'.by = u

OwnedWithinLimit == resume_count("A") <= ResumeLimit("A")

CreateAtLimitStoresNothing ==
    RequestOf("create", "A") /\ resume_count("A") >= ResumeLimit("A")
        => resp'.status = 429 /\ resumes' = resumes /\ next_id' = next_id /\ resp'.body = {}

CreateBelowLimitSucceeds ==
    RequestOf("create", "A") /\ resume_count("A") < ResumeLimit("A")
        => /\ resp'.status = 201
           /\ resume_count("A")' = resume_count("A") + 1
           /\ resumes'[resp'.id].user_id = "A"

DeleteFreesOne ==
    RequestOf("delete", "A") /\ resp'.status = 204
        => resume_count("A")' = resume_count("A") - 1

C22_WitnessRefused ==
    /\ accounts["A"].is_guest /\ accounts["A"].bonus_resumes = 0
    /\ older["A"] = 0
    /\ resume_count("A") = 1
    /\ resp.op = "create" /\ resp.status = 429

\* the resumes table as user u can see or change it
OwnRows(u) == [i \in 1..MaxIds |-> IF owned_by(resumes[i], u) THEN resumes[i] ELSE NoResume]

\* this step is a get, update or delete of user u on a resume of another user
OnForeignResume(u) ==
    /\ resp' # resp
    /\ resp'.by = u
    /\ resp'.op \in {"get", "update", "delete"}
    /\ resumes[resp'.id] # NoResume
    /\ resumes[resp'.id].user_id # u

ForeignResumeIsNotFound ==
    \A u \in UserIds :
        OnForeignResume(u)
            => resp'.status = 404 /\ resp'.body = {} /\ resumes' = resumes

OthersRowsUntouched ==
    \A u \in UserIds :
        resp' # resp /\ resp'.by = u
            => \A o \in UserIds \ {u} : OwnRows(o)' = OwnRows(o)

ResponseHoldsOwnRows ==
    /\ \A r \in resp.body : r.user_id = resp.by
    /\ resp.op = "list" => resp.total = Cardinality(resp.body)

\* C25: after any sequence of requests of the two users, a get, update or
\* delete by one user on a resume the other owns is answered 404 without a
\* body and changes no row; no request of a user changes a row of the
\* other; and every resume in a response, the list included, is owned by
\* the user who asked.
C25_ResumesAreIsolatedBetweenUsers ==
    /\ []ResponseHoldsOwnRows
    /\ [][ForeignResumeIsNotFound /\ OthersRowsUntouched]_vars

\* B asked to delete resume 1, which A owns and has updated: 404, and the
\* resume is as A left it
C25_Witness ==
    /\ resumes[1] = Resume(1, "A", "new", "c2")
    /\ resumes[2] # NoResume /\ resumes[2].user_id = "B"
    /\ resp = Response("delete", "B", 1, 404, {}, 0)

C25_WitnessList ==
    /\ resumes[1] # NoResume /\ resumes[1].user_id = "A"
    /\ resumes[2] # NoResume /\ resumes[2].user_id = "B"
    /\ resp.op = "list" /\ resp.by = "B" /\ resp.body = {resumes[2]}


(***************************************************************************)
(* C23: for every temporary OAuth code issued by _store_oauth_code, at     *)
(* most one call of _exchange_oauth_code ever returns the stored token:    *)
(* the first exchange before expiry returns it and removes the code, and   *)
(* every later exchange of the same code, every exchange after expiry and  *)
(* every exchange of an unknown code returns None.                         *)
(***************************************************************************)
AtMostOneExchangeReturns == \A c \in Codes : returned[c] <= 1

\* what one call of _exchange_oauth_code returns, and what it leaves behind
ExchangeReturnsOnce ==
    ExchangeOAuthCode =>
       LET c == exchange'.code
           e == code_store[c]
       IN /\ (e.present /\ clock' <= e.expiry) =>
                /\ exchange'.result = e.jwt_token
                /\ returned[c] = 0
          /\ (c > codes_made \/ returned[c] >= 1 \/ (e.present /\ clock' > e.expiry)) =>
                exchange'.result = "None"
          /\ ~code_store'[c].present

\* C23: at most one exchange of a code returns its token; later, late and unknown ones return None
C23_CodeIsExchangedAtMostOnce ==
    /\ []AtMostOneExchangeReturns
    /\ [][ExchangeReturnsOnce]_vars

\* a code was exchanged for its token, and a later exchange of it returned None
C23_Witness ==
    /\ exchange.code \in 1..codes_made
    /\ returned[exchange.code] = 1
    /\ exchange.result = "None"

\* a code never exchanged before was presented after its expiry and returned None
C23_WitnessExpired ==
    /\ exchange.code \in 1..codes_made
    /\ returned[exchange.code] = 0
    /\ exchange.result = "None"
    /\ \A c \in Codes : returned[c] = 0

\* a code that was never issued was presented and returned None
C23_WitnessUnknown ==
    /\ exchange.code > codes_made
    /\ exchange.result = "None"


(***************************************************************************)
(* C24: a password-reset token changes the password at most once: after    *)
(* one successful reset with a token, every later reset request carrying   *)
(* the same token is rejected with 400 and leaves the stored password hash *)
(* unchanged, whatever new password was chosen in the first reset.         *)
(***************************************************************************)
TokenResetsAtMostOnce == resets <= 1

\* a request carrying a token that has already reset the password
LaterUseIsRejected ==
    (ResetPassword /\ resets >= 1 /\ reset_resp'.token = "reset") =>
       /\ reset_resp'.status = 400
       /\ password_hash' = password_hash

\* C24: one token changes the password at most once; a later use gets 400 and changes nothing
C24_ResetTokenIsSingleUse ==
    /\ []TokenResetsAtMostOnce
    /\ [][LaterUseIsRejected]_vars

\* the same token has reset the password twice
C24_TokenUsedTwice ==
    /\ resets = 2
    /\ reset_resp.token = "reset"
    /\ reset_resp.status = 200

\* a second use of the token was rejected as already used
C24_SecondUseRejected ==
    /\ resets = 1
    /\ reset_resp = ResetResponse("reset", 400, "This reset link has already been used")


(***************************************************************************)
(* C26: every run of generate_cv performs its steps in the fixed order     *)
(* template resolved, sections normalized, source file written, compiler   *)
(* invoked, output bytes read, working directory removed, and never        *)
(* returns to an earlier step; a failure at any step goes directly to      *)
(* working-directory removal and then ends with an error, no later         *)
(* pipeline step being executed, and the response bytes are those read     *)
(* before the removal.                                                     *)
(***************************************************************************)
Generating(w) == req[w].kind \in {"generate", "resume"} /\ req[w].pc \notin {"idle", "done"}

\* the step that follows a step that did not fail
StepAfter(pc) ==
    CASE pc = "resolve" -> "render"
      [] pc = "render"  -> "compile"
      [] pc = "compile" -> "read"
      [] pc = "read"    -> "cleanup"
      [] pc = "cleanup" -> "finish"
      [] pc = "finish"  -> "done"

\* each step of a request leads to the next one, or to the removal when it fails
StepsInOrder ==
    \A w \in Tasks :
       (Generating(w) /\ req'[w] # req[w]) =>
          /\ req'[w].dir = req[w].dir
          /\ req'[w].pc = IF req[w].exc = "" /\ req'[w].exc # ""
                          THEN "cleanup" ELSE StepAfter(req[w].pc)
          /\ req[w].exc # "" => req'[w].exc = req[w].exc

\* what is on disk and in memory at each step: the template before the
\* rendering, main.tex before the compiler, nothing of a failed step after it
StepsLeaveTheirOutput ==
    \A w \in Tasks :
       Generating(w) =>
          /\ req[w].pc = "render" => File("template", ".tex") \in files[req[w].dir]
          /\ req[w].pc = "compile" => File("main", ".tex") \in files[req[w].dir]
          /\ req[w].pc \in {"resolve", "render"} => File("main", ".tex") \notin files[req[w].dir]
          /\ req[w].pc \in {"resolve", "render", "compile"} => req[w].ncompile = 0
          /\ req[w].stage \in {"copy", "normalize", "render"} =>
                req[w].ncompile = 0 /\ req[w].pdf_content = 0
          /\ req[w].exc # "" => req[w].pdf_content = 0
          /\ req[w].pc \in {"resolve", "render", "compile", "read", "cleanup"} => req[w].rmtree = ""
          /\ req[w].pc = "finish" => req[w].rmtree # ""

\* the bytes of the response are the ones read from main.pdf before the removal
BytesReadBeforeRemoval ==
    /\ \A w \in Tasks :
          (req[w].kind \in {"generate", "resume"} /\ req[w].pc = "done" /\ req[w].dir # 0) =>
             /\ req[w].rmtree # ""
             /\ req[w].status = 200 <=> req[w].exc = ""
             /\ req[w].status = 200 =>
                   /\ req[w].body = req[w].pdf_content
                   /\ req[w].pdf_content = req[w].dir
                   /\ req[w].compiled_from = req[w].data

BytesKeptAfterReading ==
    \A w \in Tasks :
       (Generating(w) /\ req[w].pc \in {"cleanup", "finish"}) =>
          /\ req'[w].pdf_content = req[w].pdf_content
          /\ req'[w].compiled_from = req[w].compiled_from

\* C26: generate_cv goes through its steps in order, a failure leads to the removal and an error
C26_StepsRunInFixedOrder ==
    /\ [][StepsInOrder /\ BytesKeptAfterReading]_vars
    /\ [](StepsLeaveTheirOutput /\ BytesReadBeforeRemoval)

\* a request failed while rendering: the directory was removed, the compiler never ran
C26_Witness ==
    \E w \in Tasks :
       /\ req[w].kind = "generate"
       /\ req[w].pc = "done"
       /\ req[w].stage = "render"
       /\ req[w].rmtree = "removed"
       /\ req[w].ncompile = 0
       /\ req[w].status = 500

\* a request went through every step and returned the bytes it had read
C26_WitnessSuccess ==
    \E w \in Tasks :
       /\ req[w].kind = "generate"
       /\ req[w].pc = "done"
       /\ req[w].status = 200
       /\ req[w].rmtree = "removed"
       /\ req[w].body = req[w].dir


(***************************************************************************)
(* C27: no single request starts the external compiler more than once:     *)
(* each /generate, /api/resumes/{id}/generate and /optimal-size request    *)
(* makes at most one compiler invocation, and a failed invocation is never *)
(* retried within the request.                                             *)
(***************************************************************************)
\* C27: a request of any of the three routes starts the compiler at most once
C27_AtMostOneCompilerInvocation ==
    \A w \in Tasks : req[w].ncompile <= 1

\* the same bound for the two routes that generate a PDF
GenerateCompilesAtMostOnce ==
    \A w \in Tasks : req[w].kind \in {"generate", "resume"} => req[w].ncompile <= 1

\* one /optimal-size request has started the compiler for each of the three sizes
C27_OptimalSizeCompiledThrice ==
    \E w \in Tasks :
       /\ req[w].kind = "optimal"
       /\ req[w].ncompile = 3


(***************************************************************************)
(* C28: if removing the working directory fails, the failure is swallowed: *)
(* a request whose pipeline succeeded still returns its PDF bytes, and a   *)
(* request whose pipeline failed still surfaces its original error, never  *)
(* the cleanup error.                                                      *)
(***************************************************************************)
RemovalFailed(w) ==
    /\ req[w].kind \in {"generate", "resume"}
    /\ req[w].pc = "done"
    /\ req[w].rmtree = "suppressed"

\* the response of a request whose removal failed: the bytes when they were
\* read, else the error of the step that failed
ResponseIgnoresRemoval ==
    \A w \in Tasks :
       RemovalFailed(w) =>
          /\ req[w].dir \in dirs
          /\ req[w].exc # "OSError"
          /\ req[w].pdf_content # 0 =>
                /\ req[w].stage = ""
                /\ req[w].status = 200
                /\ req[w].body = req[w].pdf_content
          /\ req[w].pdf_content = 0 =>
                /\ req[w].status = 500
                /\ req[w].stage = "compile" => req[w].detail = "compilation"
                /\ req[w].stage = "nopdf" => req[w].detail = "nopdf"
                /\ req[w].stage \in {"copy", "normalize"} => req[w].detail = "unexpected"
                /\ req[w].stage # ""

\* the removal, failed or not, leaves the pending exception and the bytes as they were
RemovalKeepsOutcome ==
    \A w \in Tasks :
       (req[w].kind \in {"generate", "resume"} /\ req[w].pc = "cleanup") =>
          /\ req'[w].exc = req[w].exc
          /\ req'[w].pdf_content = req[w].pdf_content
          /\ req'[w].stage = req[w].stage

\* C28: a failed removal changes neither a successful response nor the error of a failed request
C28_CleanupFailureIsSwallowed ==
    /\ []ResponseIgnoresRemoval
    /\ [][RemovalKeepsOutcome]_vars

\* the removal failed after a successful pipeline and the request returned its bytes
C28_Witness ==
    \E w \in Tasks :
       /\ RemovalFailed(w)
       /\ req[w].status = 200
       /\ req[w].body = req[w].dir
       /\ req[w].dir \in dirs

\* the removal failed after a failed compilation and the request reported the compilation
C28_WitnessFailed ==
    \E w \in Tasks :
       /\ RemovalFailed(w)
       /\ req[w].stage = "compile"
       /\ req[w].status = 500
       /\ req[w].detail = "compilation"


(***************************************************************************)
(* C29: every failure inside the pipeline is surfaced as exactly one       *)
(* structured error of its own category and never as a raw exception: a    *)
(* compiler failure as CompilationFailed with the diagnostic text, a       *)
(* template rendering failure as RenderError with its cause and            *)
(* distinguishable from CompilationFailed, and any other exception as      *)
(* Unexpected with its cause.                                              *)
(***************************************************************************)
FailedInPipeline(w) ==
    /\ req[w].kind \in {"generate", "resume"}
    /\ req[w].pc = "done"
    /\ req[w].stage # ""

\* C29: the category of the error answered is the one of the step that failed
C29_FailuresKeepTheirCategory ==
    \A w \in Tasks :
       FailedInPipeline(w) =>
          /\ req[w].status = 500
          /\ req[w].stage = "compile" => req[w].detail = "compilation"
          /\ (req[w].stage = "render" /\ req[w].exc = "RuntimeError") =>
                req[w].detail \notin {"compilation", "unexpected"}
          /\ req[w].stage \in {"copy", "normalize"} => req[w].detail = "unexpected"

\* the renderer failed and the request was answered as a failed compilation,
\* although the compiler was never started
C29_RenderFailureReportedAsCompilation ==
    \E w \in Tasks :
       /\ FailedInPipeline(w)
       /\ req[w].stage = "render"
       /\ req[w].exc = "RuntimeError"
       /\ req[w].ncompile = 0
       /\ req[w].detail = "compilation"

\* what does hold: every failure is answered by one HTTPException with status 500,
\* a failed compilation as such and an exception of another class as unexpected
FailuresAreAnswered500 ==
    \A w \in Tasks :
       FailedInPipeline(w) =>
          /\ req[w].status = 500
          /\ req[w].detail \in {"compilation", "nopdf", "unexpected"}
          /\ req[w].stage = "compile" => req[w].detail = "compilation"
          /\ req[w].exc \notin {"RuntimeError", "HTTPException"} => req[w].detail = "unexpected"


====
